---- MODULE Spec2Model ----
(***************************************************************************)
(* moonlite: token stream -> Parser -> AST -> Compiler -> Chunk -> VM.     *)
(* The pipeline of main() as a state machine; the parser, the compiler and *)
(* the VM's opcodes as operators computed the way the code computes them.  *)
(***************************************************************************)
EXTENDS Integers, Sequences, FiniteSets, TLC

VARIABLES
    tokens,     \* the lexer's items, in order: Ok(token) or Err(report); ends with EOF
    args,       \* ARGS: [report_level, max_reports]
    pc,         \* main's position
    parser,     \* Parser: [pos, start]: the index of `current`; parse_block's `start`
    stmts,      \* parse_block's `stmts`
    ast,        \* the root node returned by Parser::parse
    queue,      \* ReportChannel: reports sent and not yet received
    sent,       \* every report ever sent on the channel, in order
    reported,   \* ReportChannel.reported
    shown,      \* reports written to the user's error output
    chunk,      \* Chunk: [source, consts]
    ip,         \* VM.ip
    stack,      \* VM.stack
    outcome     \* [kind, val, msg]: what VM::run returned, or how the process ended

vars == <<tokens, args, pc, parser, stmts, ast, queue, sent, reported, shown,
          chunk, ip, stack, outcome>>

(***************************************************************************)
(* Bounds of the model.                                                    *)
(***************************************************************************)
\* Width in bits of usize/isize in the model (64 on the real targets).
WordBits == 6
\* Longest free-form token stream (before the closing EOF).
MaxLen == 4

UsizeMax == (2 ^ WordBits) - 1
IsizeMax == (2 ^ (WordBits - 1)) - 1
IsizeMin == 0 - (2 ^ (WordBits - 1))

(***************************************************************************)
(* Tokens (ast/token.rs) and lexer items.                                  *)
(***************************************************************************)
TokenKind == {"And", "Bang", "BangEquals", "BooleanLiteral", "Colon", "EOF", "Equals",
              "EqualsEquals", "FloatLiteral", "GreaterThan", "GreaterThanEquals",
              "Identifier", "IntegerLiteralBin", "IntegerLiteralDec", "IntegerLiteralHex",
              "IntegerLiteralOct", "LeftParen", "LessThan", "LessThanEquals", "Let",
              "Minus", "Or", "Plus", "Return", "RightParen", "Semicolon", "Slash", "Star",
              "StringLiteral"}

\* Token::new: newline_before starts false.
Token(kind, text) == [ok |-> TRUE, kind |-> kind, text |-> text, newline_before |-> FALSE,
                      level |-> "None"]
\* The lexer sets newline_before on the first token of a line.
OnNewLine(tok) == [tok EXCEPT !.newline_before = TRUE]
\* An Err(report) item of the lexer's iterator.
LexReport(level) == [ok |-> FALSE, kind |-> "LexReport", text |-> <<>>,
                     newline_before |-> FALSE, level |-> level]

\* Span: token i covers the offsets [i, i+1).
Min(a, b) == IF a <= b THEN a ELSE b
Max(a, b) == IF a >= b THEN a ELSE b
SpanOf(i) == <<i, i + 1>>
Extend(a, b) == <<Min(a[1], b[1]), Max(a[2], b[2])>>

(***************************************************************************)
(* Binding powers (ast/mod.rs).  None is <<>>.                             *)
(***************************************************************************)
None == <<>>

\* Prefix Plus and Minus binding tighter than every infix operator.
MutAsPrefixBindsTightest(kind) ==
    CASE kind = "Plus"  -> <<"Plus", 7>>
      [] kind = "Minus" -> <<"Minus", 7>>
      [] kind = "Bang"  -> <<"Not", 2>>
      [] OTHER -> <<>>

as_prefix(kind) ==
    CASE kind = "Plus"  -> <<"Plus", 1>>
      [] kind = "Minus" -> <<"Minus", 1>>
      [] kind = "Bang"  -> <<"Not", 2>>
      [] OTHER -> None

as_infix(kind) ==
    CASE kind = "Or" -> <<"Or", 1, 2>>
      [] kind = "And" -> <<"And", 2, 3>>
      [] kind = "EqualsEquals" -> <<"Equals", 3, 4>>
      [] kind = "BangEquals" -> <<"BangEquals", 3, 4>>
      [] kind = "GreaterThan" -> <<"GreaterThan", 3, 4>>
      [] kind = "GreaterThanEquals" -> <<"GreaterThanEquals", 3, 4>>
      [] kind = "LessThan" -> <<"LessThan", 3, 4>>
      [] kind = "LessThanEquals" -> <<"LessThanEquals", 3, 4>>
      [] kind = "Plus" -> <<"Plus", 4, 5>>
      [] kind = "Minus" -> <<"Minus", 4, 5>>
      [] kind = "Star" -> <<"Star", 5, 6>>
      [] kind = "Slash" -> <<"Slash", 5, 6>>
      [] OTHER -> None

as_postfix(kind) == None

(***************************************************************************)
(* Parser (ast/parser.rs).  A parser state ps is [pos, panic, reps]: the   *)
(* index of `current`, the message of the panic met ("" for none) and the   *)
(* reports sent so far by the call being computed.                         *)
(***************************************************************************)
Cur(ps) == tokens[ps.pos]

Report(level, title, at) == [level |-> level, title |-> title, at |-> at]
\* ParserError::level is always Error.
ParserError(title, at) == Report("Error", title, at)

Ok(val, ps) == [ok |-> TRUE, val |-> val, ps |-> ps]
Err(e, ps) == [ok |-> FALSE, val |-> e, ps |-> ps]

\* Parser::report
SendReport(ps, r) == [ps EXCEPT !.reps = Append(@, r)]

\* Parser::advance: lexer.next() until an Ok(token), reporting every Err on the way.
RECURSIVE NextToken(_, _)
NextToken(ps, i) ==
    IF i > Len(tokens) THEN [ps EXCEPT !.panic = "Advanced past EOF"]
    ELSE IF tokens[i].ok THEN [ps EXCEPT !.pos = i]
    ELSE NextToken(SendReport(ps, Report(tokens[i].level, "LexerReport", i)), i + 1)

advance(ps) == IF ps.panic # "" THEN ps ELSE NextToken(ps, ps.pos + 1)

\* The predicate sync hands to skip_until.
IsNewStatement(tok, closer) ==
    tok.kind = "Semicolon" \/ tok.newline_before \/ tok.kind = closer

\* Parser::skip_until, with sync's predicate.
RECURSIVE skip_until(_, _)
skip_until(ps, closer) ==
    IF ps.panic # "" THEN ps
    ELSE IF IsNewStatement(Cur(ps), closer) THEN ps
    ELSE IF Cur(ps).kind = "EOF" THEN ps
    ELSE skip_until(advance(ps), closer)

\* Parser::sync
AfterSkip(ps) == IF ps.panic = "" /\ Cur(ps).kind = "Semicolon" THEN advance(ps) ELSE ps
sync(ps, closer) == AfterSkip(skip_until(ps, closer))

\* consume testing for EOF before it tests the predicate.
MutConsumeEofFirst(ps, matches) ==
    IF Cur(ps).kind = "EOF" THEN Err(ParserError("UnexpectedEOF", ps.pos), ps)
    ELSE IF matches THEN Ok(ps.pos, advance(ps))
    ELSE Err(ParserError("UnexpectedToken", ps.pos), ps)

\* consume without the `token.kind != EOF` guard on its advance.
MutConsumeAlwaysAdvances(ps, matches) ==
    IF matches THEN Ok(ps.pos, advance(ps))
    ELSE IF Cur(ps).kind = "EOF" THEN Err(ParserError("UnexpectedEOF", ps.pos), ps)
    ELSE Err(ParserError("UnexpectedToken", ps.pos), ps)

\* Parser::consume, `matches` being predicate(current).
consume(ps, matches) ==
    IF matches
      THEN Ok(ps.pos, IF Cur(ps).kind # "EOF" THEN advance(ps) ELSE ps)
    ELSE IF Cur(ps).kind = "EOF" THEN Err(ParserError("UnexpectedEOF", ps.pos), ps)
    ELSE Err(ParserError("UnexpectedToken", ps.pos), ps)

\* Parser::consume_one
consume_one(ps, expect) == consume(ps, Cur(ps).kind = expect)

\* A variant of consume_line_or without the error arm: any following token ends a statement.
MutConsumeLineOrAcceptsAll(ps, expect) ==
    IF Cur(ps).kind = "Semicolon" THEN Ok(ps.pos, advance(ps)) ELSE Ok(ps.pos, ps)

\* Parser::consume_line_or
consume_line_or(ps, expect) ==
    CASE Cur(ps).kind = "Semicolon" -> Ok(ps.pos, advance(ps))
      [] Cur(ps).kind = "EOF" -> Ok(ps.pos, ps)
      [] Cur(ps).kind \notin {"Semicolon", "EOF"}
         /\ (Cur(ps).newline_before \/ Cur(ps).kind = expect) -> Ok(ps.pos, ps)
      [] OTHER -> Err(ParserError("UnexpectedToken", ps.pos), ps)

(***************************************************************************)
(* Literal texts are sequences of one-character strings.                   *)
(***************************************************************************)
DecDigits == <<"0", "1", "2", "3", "4", "5", "6", "7", "8", "9">>
HexLower == <<"a", "b", "c", "d", "e", "f">>
HexUpper == <<"A", "B", "C", "D", "E", "F">>

IndexIn(c, chars) ==
    IF \E i \in 1..Len(chars) : chars[i] = c
      THEN CHOOSE i \in 1..Len(chars) : chars[i] = c
      ELSE 0

\* char::to_digit(radix): the digit's value, or -1 when c is no digit of the radix.
ToDigit(c, radix) ==
    LET v == IF IndexIn(c, DecDigits) > 0 THEN IndexIn(c, DecDigits) - 1
             ELSE IF IndexIn(c, HexLower) > 0 THEN IndexIn(c, HexLower) + 9
             ELSE IF IndexIn(c, HexUpper) > 0 THEN IndexIn(c, HexUpper) + 9
             ELSE 0 - 1
    IN IF v >= 0 /\ v < radix THEN v ELSE 0 - 1

\* usize::from_str_radix: Ok(n), or Err(Empty | InvalidDigit | PosOverflow).
RECURSIVE FromStrRadixFrom(_, _, _, _)
FromStrRadixFrom(text, radix, i, acc) ==
    IF i > Len(text) THEN [ok |-> TRUE, val |-> acc]
    ELSE IF ToDigit(text[i], radix) < 0 THEN [ok |-> FALSE, val |-> "InvalidDigit"]
    ELSE IF acc * radix + ToDigit(text[i], radix) > UsizeMax
      THEN [ok |-> FALSE, val |-> "PosOverflow"]
    ELSE FromStrRadixFrom(text, radix, i + 1, acc * radix + ToDigit(text[i], radix))

usize_from_str_radix(text, radix) ==
    IF text = <<>> THEN [ok |-> FALSE, val |-> "Empty"]
    ELSE FromStrRadixFrom(text, radix, 1, 0)

(***************************************************************************)
(* AST nodes (ast/mod.rs): NodeKind::make(span).                           *)
(***************************************************************************)
Return(expr, span) == [kind |-> "Return", expr |-> expr, span |-> span]
Block(ss, span) == [kind |-> "Block", stmts |-> ss, span |-> span]
VarDeclaration(name, expr, span) ==
    [kind |-> "VarDeclaration", name |-> name, expr |-> expr, span |-> span]
UnaryOperation(op, expr, span) ==
    [kind |-> "UnaryOperation", op |-> op, expr |-> expr, span |-> span]
BinaryOperation(op, lhs, rhs, span) ==
    [kind |-> "BinaryOperation", op |-> op, lhs |-> lhs, rhs |-> rhs, span |-> span]
Leaf(kind, val, span) == [kind |-> kind, val |-> val, span |-> span]

(***************************************************************************)
(* StringParser (ast/parser.rs): the escape sub-parser of string literals. *)
(* A decoded string is a sequence of code points.  sp is [n, index, char]: *)
(* characters taken from char_indices, current_index, current_char.        *)
(***************************************************************************)
Chars == <<"a", "b", "n", "q", "r", "t", "u", "x", "y", "f", "A", "0", "1", "2", "4",
           "\\", "'", "\"">>
Codes == <<97, 98, 110, 113, 114, 116, 117, 120, 121, 102, 65, 48, 49, 50, 52,
           92, 39, 34>>
\* The code point of a source character.
CodeOf(c) == Codes[IndexIn(c, Chars)]

\* StringParser::advance
sp_advance(source, sp) ==
    IF sp.n < Len(source)
      THEN [n |-> sp.n + 1, index |-> sp.n, char |-> <<source[sp.n + 1]>>]
      ELSE [n |-> sp.n, index |-> sp.index + 1, char |-> None]

\* StringParser::new
sp_new(source) == sp_advance(source, [n |-> 0, index |-> 0, char |-> None])

\* StringParser::span / span_from / span_at (Span::at covers one offset).
sp_span(span, start, end) == <<span[1] + start + 1, span[1] + end + 1>>
sp_span_at(span, start) == <<span[1] + start + 1, span[1] + start + 2>>

SyntaxError(msg, label) == [level |-> "Error", title |-> "SyntaxError", msg |-> msg,
                            at |-> label]

IsHexDigit(c) == ToDigit(c, 16) >= 0

\* The `for _ in 0..4` loop of a \u escape: the state after the hex digits, or the error.
RECURSIVE sp_hex_run(_, _, _, _, _)
sp_hex_run(source, span, sp, code_start, k) ==
    IF k = 4 THEN [ok |-> TRUE, val |-> sp]
    ELSE IF sp.char = None
      THEN [ok |-> FALSE,
            val |-> SyntaxError("Unexpected end of string.", sp_span_at(span, sp.index))]
    ELSE IF IsHexDigit(sp.char[1])
      THEN sp_hex_run(source, span, sp_advance(source, sp), code_start, k + 1)
    ELSE [ok |-> FALSE,
          val |-> SyntaxError("Unexpected character for escape code",
                              sp_span_at(span, sp.index))]

\* u16::from_str_radix(code_text, 16) of four hex digits, then char::decode_utf16 of
\* the single unit: a surrogate (D800..DFFF) is an error.
HexValue(text) ==
    ((ToDigit(text[1], 16) * 16 + ToDigit(text[2], 16)) * 16 + ToDigit(text[3], 16)) * 16
    + ToDigit(text[4], 16)
IsSurrogate(code) == code >= 55296 /\ code <= 57343

\* StringParser::parse: Ok(buf), Err(report), or the panic of a hanging escape.
RECURSIVE sp_parse(_, _, _, _)
sp_parse(source, span, sp, buf) ==
    IF sp.char = None THEN [ok |-> TRUE, val |-> buf, panic |-> ""]
    ELSE IF sp.char[1] # "\\"
      THEN sp_parse(source, span, sp_advance(source, sp), Append(buf, CodeOf(sp.char[1])))
    ELSE
      LET start == sp.index
          s1 == sp_advance(source, sp)
      IN IF s1.char = None
           THEN [ok |-> FALSE, val |-> None, panic |-> "Lexer left a hanging escape"]
         ELSE
           LET escaped == s1.char[1]
               s2 == sp_advance(source, s1)
               push(code) == sp_parse(source, span, s2, Append(buf, code))
           IN CASE escaped \in {"\\", "'", "\""} -> push(CodeOf(escaped))
                [] escaped = "n" -> push(10)
                [] escaped = "r" -> push(13)
                [] escaped = "t" -> push(9)
                [] escaped = "b" -> push(8)
                [] escaped = "f" -> push(12)
                [] escaped = "0" -> push(0)
                [] escaped = "u" ->
                     LET run == sp_hex_run(source, span, s2, s2.index, 0)
                     IN IF ~run.ok THEN [ok |-> FALSE, val |-> run.val, panic |-> ""]
                        ELSE
                          LET code == HexValue(SubSeq(source, s2.index + 1, run.val.index))
                          IN IF IsSurrogate(code)
                               THEN [ok |-> FALSE,
                                     val |-> SyntaxError("Invalid Unicode Escape Sequence",
                                               sp_span(span, s2.index, run.val.index)),
                                     panic |-> ""]
                               ELSE sp_parse(source, span, run.val, Append(buf, code))
                [] OTHER -> [ok |-> FALSE,
                             val |-> SyntaxError("Invalid Escape Character",
                                                 sp_span_at(span, start)),
                             panic |-> ""]

StringParser_parse(source, span) == sp_parse(source, span, sp_new(source), <<>>)

(***************************************************************************)
(* Float literals: <f64 as FromStr>, on the decimal numerals digits[.digits].*)
(* A float is kept as an exact fraction <<numerator, denominator>> in      *)
(* lowest terms; a zero denominator stands for the infinities and NaN.     *)
(***************************************************************************)
Abs(x) == IF x < 0 THEN 0 - x ELSE x
RECURSIVE Gcd(_, _)
Gcd(a, b) == IF b = 0 THEN a ELSE Gcd(b, a % b)
Frac(n, d) ==
    LET g == Gcd(Abs(n), Abs(d))
        sgn == IF d < 0 THEN 0 - 1 ELSE 1
    IN IF g = 0 THEN <<0, 0>> ELSE <<sgn * (n \div g), sgn * (d \div g)>>

RECURSIVE FloatFrom(_, _, _, _, _)
FloatFrom(text, i, num, den, seenDot) ==
    IF i > Len(text) THEN [ok |-> TRUE, val |-> Frac(num, den)]
    ELSE IF text[i] = "." THEN
      IF seenDot THEN [ok |-> FALSE, val |-> "ParseFloatError"]
      ELSE FloatFrom(text, i + 1, num, den, TRUE)
    ELSE IF ToDigit(text[i], 10) < 0 THEN [ok |-> FALSE, val |-> "ParseFloatError"]
    ELSE FloatFrom(text, i + 1, num * 10 + ToDigit(text[i], 10),
                   IF seenDot THEN den * 10 ELSE den, seenDot)

f64_parse(text) ==
    IF \A i \in 1..Len(text) : ToDigit(text[i], 10) < 0
      THEN [ok |-> FALSE, val |-> "ParseFloatError"]
      ELSE FloatFrom(text, 1, 0, 1, FALSE)

(***************************************************************************)
(* Parser: expressions and statements.                                     *)
(***************************************************************************)
Radix(kind) ==
    CASE kind = "IntegerLiteralBin" -> 2
      [] kind = "IntegerLiteralOct" -> 8
      [] kind = "IntegerLiteralDec" -> 10
      [] kind = "IntegerLiteralHex" -> 16

RECURSIVE parse_expression(_, _), InfixLoop(_, _, _)

\* parse_atom, LeftParen: consume_one(RightParen)? and the re-spanned expression.
Respan(span, expr, close) ==
    IF ~close.ok THEN close
    ELSE Ok([expr EXCEPT !.span = Extend(span, SpanOf(close.val))], close.ps)

\* parse_atom, LeftParen: parse_expression(0)? then the closing parenthesis.
CloseParen(span, expr) ==
    IF ~expr.ok THEN expr
    ELSE Respan(span, expr.val, consume_one(expr.ps, "RightParen"))

\* parse_atom, StringLiteral: the node of StringParser::parse's result, or its error.
StringAtom(span, parsed, next) ==
    IF parsed.panic # "" THEN Err(None, [next EXCEPT !.panic = parsed.panic])
    ELSE IF parsed.ok THEN Ok(Leaf("StringLiteral", parsed.val, span), next)
    ELSE Err(parsed.val, next)

\* A literal arm that falls back to the default value where the text does not parse.
MutNumberAtomDefaults(nodeKind, title, span, parsed, next) ==
    Ok(Leaf(nodeKind, IF parsed.ok THEN parsed.val ELSE 0, span), next)

\* parse_atom, FloatLiteral / IntegerLiteral*: the literal node, or the SyntaxError
\* with the parse failure as its note.
NumberAtom(nodeKind, title, span, parsed, next) ==
    IF parsed.ok THEN Ok(Leaf(nodeKind, parsed.val, span), next)
    ELSE Err([note |-> parsed.val] @@ SyntaxError(title, span), next)

\* parse_atom whose catch-all arm returns the error without advancing, as its EOF arm does.
MutParseAtomKeepsUnexpected(ps) ==
    LET kind == Cur(ps).kind
        text == Cur(ps).text
        span == SpanOf(ps.pos)
    IN CASE kind = "LeftParen" -> CloseParen(span, parse_expression(advance(ps), 0))
         [] kind = "Identifier" -> Ok(Leaf("Identifier", text, span), advance(ps))
         [] kind = "StringLiteral" ->
              StringAtom(span, StringParser_parse(text, span), advance(ps))
         [] kind = "BooleanLiteral" ->
              Ok(Leaf("BooleanLiteral", text = <<"T", "r", "u", "e">>, span), advance(ps))
         [] kind = "FloatLiteral" ->
              NumberAtom("FloatLiteral", "Invalid Float Literal", span, f64_parse(text),
                         advance(ps))
         [] kind \in {"IntegerLiteralBin", "IntegerLiteralDec", "IntegerLiteralHex",
                      "IntegerLiteralOct"} ->
              NumberAtom("IntegerLiteral", "Invalid Integer literal", span,
                         usize_from_str_radix(text, Radix(kind)), advance(ps))
         [] kind = "EOF" -> Err(ParserError("UnexpectedEOF", ps.pos), ps)
         [] OTHER -> Err(ParserError("UnexpectedToken", ps.pos), ps)

\* Parser::parse_atom
parse_atom(ps) ==
    LET kind == Cur(ps).kind
        text == Cur(ps).text
        span == SpanOf(ps.pos)
    IN CASE kind = "LeftParen" -> CloseParen(span, parse_expression(advance(ps), 0))
         [] kind = "Identifier" -> Ok(Leaf("Identifier", text, span), advance(ps))
         [] kind = "StringLiteral" ->
              StringAtom(span, StringParser_parse(text, span), advance(ps))
         [] kind = "BooleanLiteral" ->
              Ok(Leaf("BooleanLiteral", text = <<"T", "r", "u", "e">>, span), advance(ps))
         [] kind = "FloatLiteral" ->
              NumberAtom("FloatLiteral", "Invalid Float Literal", span, f64_parse(text),
                         advance(ps))
         [] kind \in {"IntegerLiteralBin", "IntegerLiteralDec", "IntegerLiteralHex",
                      "IntegerLiteralOct"} ->
              NumberAtom("IntegerLiteral", "Invalid Integer literal", span,
                         usize_from_str_radix(text, Radix(kind)), advance(ps))
         [] kind = "EOF" -> Err(ParserError("UnexpectedEOF", ps.pos), ps)
         [] OTHER -> Err(ParserError("UnexpectedToken", ps.pos), advance(ps))

\* parse_expression, prefix arm: the UnaryOperation over the operand rhs.
PrefixOperation(op, span, rhs) ==
    IF ~rhs.ok THEN rhs
    ELSE Ok(UnaryOperation(op, rhs.val, Extend(span, rhs.val.span)), rhs.ps)

\* parse_expression: `lhs` is built (or its error returned by `?`), the loop follows.
EnterLoop(lhs, min_bp) ==
    IF ~lhs.ok THEN lhs ELSE InfixLoop(lhs.ps, lhs.val, min_bp)

\* Parser::parse_expression: the prefix operator or the atom, then the loop.
parse_expression(ps, min_bp) ==
    EnterLoop(IF as_prefix(Cur(ps).kind) # None
                THEN PrefixOperation(as_prefix(Cur(ps).kind)[1], SpanOf(ps.pos),
                                     parse_expression(advance(ps),
                                                      as_prefix(Cur(ps).kind)[2]))
                ELSE parse_atom(ps),
              min_bp)

\* The loop of parse_expression, infix arm: fold rhs into lhs and loop again.
FoldInfix(op, lhs, rhs, min_bp) ==
    IF ~rhs.ok THEN rhs
    ELSE InfixLoop(rhs.ps,
                   BinaryOperation(op, lhs, rhs.val, Extend(lhs.span, rhs.val.span)),
                   min_bp)

\* The loop breaking on an operator whose lbp only equals min_bp.
MutInfixLoopBreakAtEqual(ps, lhs, min_bp) ==
    LET inf == as_infix(Cur(ps).kind)
    IN IF inf = None THEN Ok(lhs, ps)
       ELSE IF inf[2] <= min_bp THEN Ok(lhs, ps)
       ELSE FoldInfix(inf[1], lhs, parse_expression(advance(ps), inf[3]), min_bp)

\* The `loop` of parse_expression, entered with the `lhs` built so far.
InfixLoop(ps, lhs, min_bp) ==
    LET post == as_postfix(Cur(ps).kind)
        inf == as_infix(Cur(ps).kind)
    IN IF post # None
         THEN IF post[2] < min_bp THEN Ok(lhs, ps)
              ELSE InfixLoop(advance(ps), UnaryOperation(post[1], lhs, SpanOf(ps.pos)), min_bp)
       ELSE IF inf = None THEN Ok(lhs, ps)
       ELSE IF inf[2] < min_bp THEN Ok(lhs, ps)
       ELSE FoldInfix(inf[1], lhs, parse_expression(advance(ps), inf[3]), min_bp)

\* parse_statement, Return: the Return node over the expression.
ReturnStatement(span, expr) ==
    IF ~expr.ok THEN expr ELSE Ok(Return(expr.val, span), expr.ps)

\* parse_statement, Let: the VarDeclaration over the expression.
LetExpression(span, name, expr) ==
    IF ~expr.ok THEN expr
    ELSE Ok(VarDeclaration(name, expr.val, Extend(span, expr.val.span)), expr.ps)

\* parse_statement, Let: consume_one(Equals)? then the expression.
LetEquals(span, name, eq) ==
    IF ~eq.ok THEN eq ELSE LetExpression(span, name, parse_expression(eq.ps, 0))

\* parse_statement, Let: consume_one(Identifier)?.text then the rest.
LetIdentifier(span, id) ==
    IF ~id.ok THEN id
    ELSE LetEquals(span, tokens[id.val].text, consume_one(id.ps, "Equals"))

\* Parser::parse_statement
parse_statement(ps) ==
    CASE Cur(ps).kind = "Return" ->
           ReturnStatement(SpanOf(ps.pos), parse_expression(advance(ps), 0))
      [] Cur(ps).kind = "Let" ->
           LetIdentifier(SpanOf(ps.pos), consume_one(advance(ps), "Identifier"))
      [] OTHER -> parse_expression(ps, 0)

(***************************************************************************)
(* Value (vm/value.rs): the tagged runtime datum and its operations.  An   *)
(* operation yields the set of results a build can produce: VOk(value),    *)
(* VErr (the Err the VM returns) or VPanic.  Integer overflow and integer  *)
(* division by zero are the two cases with more than one such result.      *)
(***************************************************************************)
Integer(n) == [tag |-> "Integer", v |-> n]
Float(f) == [tag |-> "Float", v |-> f]
Boolean(b) == [tag |-> "Boolean", v |-> b]
String(str) == [tag |-> "String", v |-> str]
NoneValue == [tag |-> "None", v |-> 0]

VOk(val) == [res |-> "Ok", val |-> val, msg |-> ""]
VErr(msg) == [res |-> "Err", val |-> NoneValue, msg |-> msg]
VPanic(msg) == [res |-> "Panic", val |-> NoneValue, msg |-> msg]

\* `usize as isize`, and the two's complement value of an out-of-range result.
AsIsize(n) == IF n > IsizeMax THEN n - (2 ^ WordBits) ELSE n
WrapIsize(x) == AsIsize(x % (2 ^ WordBits))

IntResult(x) ==
    IF x >= IsizeMin /\ x <= IsizeMax THEN {VOk(Integer(x))}
    ELSE {VOk(Integer(WrapIsize(x))), VPanic("arithmetic overflow")}

\* Rust's `/` on isize truncates toward zero.
TruncDiv(a, b) ==
    LET q == Abs(a) \div Abs(b) IN IF (a < 0) = (b < 0) THEN q ELSE 0 - q

FloatAdd(a, b) == Frac(a[1] * b[2] + b[1] * a[2], a[2] * b[2])
FloatSub(a, b) == Frac(a[1] * b[2] - b[1] * a[2], a[2] * b[2])
FloatMul(a, b) == Frac(a[1] * b[1], a[2] * b[2])
FloatDiv(a, b) == Frac(a[1] * b[2], a[2] * b[1])
FloatLess(a, b) == a[2] # 0 /\ b[2] # 0 /\ a[1] * b[2] < b[1] * a[2]

TypeMismatch(name) == {VErr(name)}

Value_add(lhs, rhs) ==
    CASE lhs.tag = "Integer" /\ rhs.tag = "Integer" -> IntResult(lhs.v + rhs.v)
      [] lhs.tag = "Float" /\ rhs.tag = "Float" -> {VOk(Float(FloatAdd(lhs.v, rhs.v)))}
      [] lhs.tag = "String" /\ rhs.tag = "String" -> {VOk(String(lhs.v \o rhs.v))}
      [] OTHER -> TypeMismatch("add")

Value_sub(lhs, rhs) ==
    CASE lhs.tag = "Integer" /\ rhs.tag = "Integer" -> IntResult(lhs.v - rhs.v)
      [] lhs.tag = "Float" /\ rhs.tag = "Float" -> {VOk(Float(FloatSub(lhs.v, rhs.v)))}
      [] OTHER -> TypeMismatch("sub")

Value_mul(lhs, rhs) ==
    CASE lhs.tag = "Integer" /\ rhs.tag = "Integer" -> IntResult(lhs.v * rhs.v)
      [] lhs.tag = "Float" /\ rhs.tag = "Float" -> {VOk(Float(FloatMul(lhs.v, rhs.v)))}
      [] OTHER -> TypeMismatch("mul")

Value_div(lhs, rhs) ==
    CASE lhs.tag = "Integer" /\ rhs.tag = "Integer" ->
           IF rhs.v = 0 THEN {VErr("div"), VPanic("attempt to divide by zero")}
           ELSE IntResult(TruncDiv(lhs.v, rhs.v))
      [] lhs.tag = "Float" /\ rhs.tag = "Float" -> {VOk(Float(FloatDiv(lhs.v, rhs.v)))}
      [] OTHER -> TypeMismatch("div")

Value_lt(lhs, rhs) ==
    CASE lhs.tag = "Integer" /\ rhs.tag = "Integer" -> {VOk(Boolean(lhs.v < rhs.v))}
      [] lhs.tag = "Float" /\ rhs.tag = "Float" -> {VOk(Boolean(FloatLess(lhs.v, rhs.v)))}
      [] OTHER -> TypeMismatch("lt")

Value_gt(lhs, rhs) ==
    CASE lhs.tag = "Integer" /\ rhs.tag = "Integer" -> {VOk(Boolean(lhs.v > rhs.v))}
      [] lhs.tag = "Float" /\ rhs.tag = "Float" -> {VOk(Boolean(FloatLess(rhs.v, lhs.v)))}
      [] OTHER -> TypeMismatch("gt")

Value_equals(lhs, rhs) ==
    IF lhs.tag # rhs.tag THEN {VOk(Boolean(FALSE))}
    ELSE IF lhs.tag = "Float" THEN {VOk(Boolean(lhs.v[2] # 0 /\ lhs.v = rhs.v))}
    ELSE {VOk(Boolean(lhs.v = rhs.v))}

Value_and(lhs, rhs) ==
    IF lhs.tag = "Boolean" /\ rhs.tag = "Boolean" THEN {VOk(Boolean(lhs.v /\ rhs.v))}
    ELSE TypeMismatch("and")

Value_or(lhs, rhs) ==
    IF lhs.tag = "Boolean" /\ rhs.tag = "Boolean" THEN {VOk(Boolean(lhs.v \/ rhs.v))}
    ELSE TypeMismatch("or")

Value_not(val) ==
    IF val.tag = "Boolean" THEN {VOk(Boolean(~val.v))} ELSE TypeMismatch("not")

(***************************************************************************)
(* Chunk (vm/bytecode.rs): the opcode stream with inline constant indices, *)
(* and the constant pool.  A cell of `source` is an opcode or an index.    *)
(***************************************************************************)
OpCode == <<"Const", "Add", "Sub", "Mul", "Div", "Less", "Greater", "Equal", "And", "Or",
            "Not", "Return">>
\* The byte an opcode is written as, and the opcode a byte is read as.
OpByte(op) == IndexIn(op, OpCode) - 1
DecodeOp(byte) == IF byte >= 0 /\ byte < Len(OpCode) THEN OpCode[byte + 1] ELSE "Invalid"

Chunk_new == [source |-> <<>>, consts |-> <<>>]
write_op(ch, op) == [ch EXCEPT !.source = Append(@, OpByte(op))]
write_const(ch, val) ==
    [source |-> ch.source \o <<OpByte("Const"), Len(ch.consts)>>,
     consts |-> Append(ch.consts, val)]
\* read_op / read_const: the cell at ip; the caller moves ip past it.
read_op(ch, at) == DecodeOp(ch.source[at + 1])
HasConst(ch, at) == at < Len(ch.source) /\ ch.source[at + 1] < Len(ch.consts)
read_const(ch, at) == ch.consts[ch.source[at + 1] + 1]

(***************************************************************************)
(* Compiler (vm/compiler.rs).  A compilation is [panic, chunk]: panic is   *)
(* the message of unimplemented!/unreachable!, <<>> when there is none.    *)
(***************************************************************************)
Compiled(ch) == [panic |-> <<>>, chunk |-> ch]
CompilePanic(msg, ch) == [panic |-> msg, chunk |-> ch]

\* The construct left out of the chunk without a failure.
MutUnimplementedSkips(msg, ch) == Compiled(ch)

\* unimplemented!(msg) and unreachable!(): the panic that ends the compilation.
Unimplemented(msg, ch) == CompilePanic(<<"not implemented", msg>>, ch)
Unreachable(ch) == CompilePanic(<<"internal error: entered unreachable code">>, ch)

\* The opcode of a BinaryOperation (the first `match op`), None when unreachable!().
BinaryOpCode(op) ==
    CASE op = "Plus" -> <<"Add">>
      [] op = "Minus" -> <<"Sub">>
      [] op = "Star" -> <<"Mul">>
      [] op = "Slash" -> <<"Div">>
      [] op = "Or" -> <<"Or">>
      [] op = "And" -> <<"And">>
      [] op = "GreaterThan" -> <<"Greater">>
      [] op = "LessThan" -> <<"Less">>
      [] op = "GreaterThanEquals" -> <<"Less">>
      [] op = "LessThanEquals" -> <<"Greater">>
      [] op = "Equals" -> <<"Equal">>
      [] op = "BangEquals" -> <<"Equal">>
      [] OTHER -> None

\* The second `match op` without its BangEquals pattern.
MutInvertedWithoutBangEquals(op) == op \in {"GreaterThanEquals", "LessThanEquals"}

\* The second `match op`: the operators followed by a Not.
IsInverted(op) == op \in {"GreaterThanEquals", "LessThanEquals", "BangEquals"}

RECURSIVE compile(_, _)
\* compile lowering a BinaryOperation without the code of its left operand.
MutCompileDropsLhs(ch, node) ==
    CASE node.kind = "Return" ->
           LET v == compile(ch, node.expr)
           IN IF v.panic # <<>> THEN v ELSE Compiled(write_op(v.chunk, "Return"))
      [] node.kind = "Block" -> Unimplemented("awaiting scopes", ch)
      [] node.kind = "VarDeclaration" -> Unimplemented("awaiting scopes", ch)
      [] node.kind = "UnaryOperation" ->
           LET v == compile(ch, node.expr)
           IN IF v.panic # <<>> THEN v
              ELSE IF node.op = "Not" THEN Compiled(write_op(v.chunk, "Not"))
              ELSE Unreachable(v.chunk)
      [] node.kind = "BinaryOperation" ->
           LET l == Compiled(ch)
               r == compile(l.chunk, node.rhs)
           IN IF l.panic # <<>> THEN l
              ELSE IF r.panic # <<>> THEN r
              ELSE IF BinaryOpCode(node.op) = None
                THEN Unreachable(r.chunk)
              ELSE LET c == write_op(r.chunk, BinaryOpCode(node.op)[1])
                   IN Compiled(IF IsInverted(node.op) THEN write_op(c, "Not") ELSE c)
      [] node.kind = "Identifier" -> Unimplemented("awaiting var declaration", ch)
      [] node.kind = "StringLiteral" -> Compiled(write_const(ch, String(node.val)))
      [] node.kind = "FloatLiteral" -> Compiled(write_const(ch, Float(node.val)))
      [] node.kind = "IntegerLiteral" ->
           Compiled(write_const(ch, Integer(AsIsize(node.val))))
      [] node.kind = "BooleanLiteral" -> Compiled(write_const(ch, Boolean(node.val)))

\* Compiler::compile
compile(ch, node) ==
    CASE node.kind = "Return" ->
           LET v == compile(ch, node.expr)
           IN IF v.panic # <<>> THEN v ELSE Compiled(write_op(v.chunk, "Return"))
      [] node.kind = "Block" -> Unimplemented("awaiting scopes", ch)
      [] node.kind = "VarDeclaration" -> Unimplemented("awaiting scopes", ch)
      [] node.kind = "UnaryOperation" ->
           LET v == compile(ch, node.expr)
           IN IF v.panic # <<>> THEN v
              ELSE IF node.op = "Not" THEN Compiled(write_op(v.chunk, "Not"))
              ELSE Unreachable(v.chunk)
      [] node.kind = "BinaryOperation" ->
           LET l == compile(ch, node.lhs)
               r == compile(l.chunk, node.rhs)
           IN IF l.panic # <<>> THEN l
              ELSE IF r.panic # <<>> THEN r
              ELSE IF BinaryOpCode(node.op) = None
                THEN Unreachable(r.chunk)
              ELSE LET c == write_op(r.chunk, BinaryOpCode(node.op)[1])
                   IN Compiled(IF IsInverted(node.op) THEN write_op(c, "Not") ELSE c)
      [] node.kind = "Identifier" -> Unimplemented("awaiting var declaration", ch)
      [] node.kind = "StringLiteral" -> Compiled(write_const(ch, String(node.val)))
      [] node.kind = "FloatLiteral" -> Compiled(write_const(ch, Float(node.val)))
      [] node.kind = "IntegerLiteral" ->
           Compiled(write_const(ch, Integer(AsIsize(node.val))))
      [] node.kind = "BooleanLiteral" -> Compiled(write_const(ch, Boolean(node.val)))

\* Compiler::compile_program: the statements of the root Block, in order.
RECURSIVE CompileStmts(_, _, _)
CompileStmts(ch, ss, i) ==
    IF i > Len(ss) THEN Compiled(ch)
    ELSE LET c == compile(ch, ss[i])
         IN IF c.panic # <<>> THEN c ELSE CompileStmts(c.chunk, ss, i + 1)

\* A compiler that short-circuits: `False and R` and `True or R` are lowered to the left
\* operand alone.
RECURSIVE ShortCircuit(_)
ShortCircuit(node) ==
    CASE node.kind = "Return" -> [node EXCEPT !.expr = ShortCircuit(node.expr)]
      [] node.kind = "BinaryOperation" /\ node.op \in {"And", "Or"}
         /\ node.lhs.kind = "BooleanLiteral" /\ node.lhs.val = (node.op = "Or") -> node.lhs
      [] OTHER -> node
MutCompileProgramShortCircuits(program) ==
    CompileStmts(Chunk_new, [i \in 1..Len(program.stmts) |-> ShortCircuit(program.stmts[i])], 1)

compile_program(program) == CompileStmts(Chunk_new, program.stmts, 1)

(***************************************************************************)
(* VM (vm/mod.rs).                                                         *)
(***************************************************************************)
\* The Value operation a macro is instantiated with ($op).
ValueUnary(name, val) ==
    CASE name = "not" -> Value_not(val)

ValueBinary(name, lhs, rhs) ==
    CASE name = "add" -> Value_add(lhs, rhs)
      [] name = "sub" -> Value_sub(lhs, rhs)
      [] name = "mul" -> Value_mul(lhs, rhs)
      [] name = "div" -> Value_div(lhs, rhs)
      [] name = "lt" -> Value_lt(lhs, rhs)
      [] name = "gt" -> Value_gt(lhs, rhs)
      [] name = "equals" -> Value_equals(lhs, rhs)
      [] name = "and" -> Value_and(lhs, rhs)
      [] name = "or" -> Value_or(lhs, rhs)

Pop(st, n) == SubSeq(st, 1, Len(st) - n)
Step(res, msg, st) == [res |-> res, msg |-> msg, stack |-> st]

\* The unary! macro: pop, apply, push (`?` returns the Err).
unary(name, st) ==
    IF Len(st) < 1 THEN {Step("Panic", "unwrap on None", st)}
    ELSE {Step(r.res, r.msg, IF r.res = "Ok" THEN Append(Pop(st, 1), r.val) ELSE Pop(st, 1))
            : r \in ValueUnary(name, st[Len(st)])}

\* binary! pushing the empty value where the operation returned an Err.
MutBinaryIgnoresErr(name, st) ==
    IF Len(st) < 2 THEN {Step("Panic", "unwrap on None", <<>>)}
    ELSE {Step(IF r.res = "Err" THEN "Ok" ELSE r.res, r.msg,
               IF r.res = "Panic" THEN Pop(st, 2) ELSE Append(Pop(st, 2), r.val))
            : r \in ValueBinary(name, st[Len(st) - 1], st[Len(st)])}

\* binary! applying the operation to (rhs, lhs): the value popped first taken as the left.
MutBinarySwapsOperands(name, st) ==
    IF Len(st) < 2 THEN {Step("Panic", "unwrap on None", <<>>)}
    ELSE {Step(r.res, r.msg, IF r.res = "Ok" THEN Append(Pop(st, 2), r.val) ELSE Pop(st, 2))
            : r \in ValueBinary(name, st[Len(st)], st[Len(st) - 1])}

\* The binary! macro: pop rhs, pop lhs, apply to (lhs, rhs), push.
binary(name, st) ==
    IF Len(st) < 2 THEN {Step("Panic", "unwrap on None", <<>>)}
    ELSE {Step(r.res, r.msg, IF r.res = "Ok" THEN Append(Pop(st, 2), r.val) ELSE Pop(st, 2))
            : r \in ValueBinary(name, st[Len(st) - 1], st[Len(st)])}

\* VM::run_op for the opcodes without an operand: the set of [res, msg, stack].
run_op(op, st) ==
    CASE op = "Add" -> binary("add", st)
      [] op = "Sub" -> binary("sub", st)
      [] op = "Mul" -> binary("mul", st)
      [] op = "Div" -> binary("div", st)
      [] op = "Less" -> binary("lt", st)
      [] op = "Greater" -> binary("gt", st)
      [] op = "Equal" -> binary("equals", st)
      [] op = "And" -> binary("and", st)
      [] op = "Or" -> binary("or", st)
      [] op = "Not" -> unary("not", st)

(***************************************************************************)
(* ReportChannel (report.rs).                                              *)
(***************************************************************************)
ReportLevel == <<"Silent", "Error", "Warn", "Advice">>
LevelRank(level) == IndexIn(level, ReportLevel)

\* ReportChannel::should_display
should_display(report) == LevelRank(args.report_level) >= LevelRank(report.level)

\* The `for report in self.receiver.try_iter()` loop of check_reports:
\* acc is [errors, reported, buffer].
RECURSIVE Drain(_, _, _)
\* The loop counting an error only once the report has passed the display filter.
MutDrainCountsDisplayed(q, i, acc) ==
    IF i > Len(q) THEN acc
    ELSE IF ~should_display(q[i]) \/ acc.reported = args.max_reports
      THEN Drain(q, i + 1, acc)
    ELSE Drain(q, i + 1, [errors |-> IF q[i].level = "Error" THEN acc.errors + 1
                                      ELSE acc.errors,
                          reported |-> acc.reported + 1,
                          buffer |-> Append(acc.buffer, q[i])])

\* The loop without the max-reports test.
MutDrainIgnoresCap(q, i, acc) ==
    IF i > Len(q) THEN acc
    ELSE IF ~should_display(q[i])
      THEN Drain(q, i + 1, [acc EXCEPT !.errors = IF q[i].level = "Error" THEN @ + 1 ELSE @])
    ELSE Drain(q, i + 1, [errors |-> IF q[i].level = "Error" THEN acc.errors + 1
                                      ELSE acc.errors,
                          reported |-> acc.reported + 1,
                          buffer |-> Append(acc.buffer, q[i])])

Drain(q, i, acc) ==
    IF i > Len(q) THEN acc
    ELSE LET report == q[i]
             errors == IF report.level = "Error" THEN acc.errors + 1 ELSE acc.errors
         IN IF ~should_display(report) \/ acc.reported = args.max_reports
              THEN Drain(q, i + 1, [acc EXCEPT !.errors = errors])
              ELSE Drain(q, i + 1, [errors |-> errors, reported |-> acc.reported + 1,
                                    buffer |-> Append(acc.buffer, report)])

\* ReportChannel::check_reports: [errors, reported, buffer, exit (ExitStatus::Yes),
\* printed (what eprintln! writes)].
check_reports(q) ==
    LET d == Drain(q, 1, [errors |-> 0, reported |-> reported, buffer |-> <<>>])
    IN [errors |-> d.errors, reported |-> d.reported, exit |-> d.errors > 0,
        printed |-> IF d.errors > 0 /\ args.report_level # "Silent" THEN d.buffer ELSE <<>>]

(***************************************************************************)
(* Inputs: the token streams and arguments the model starts from.          *)
(***************************************************************************)
K(kind) == Token(kind, <<>>)
EOF == K("EOF")

RECURSIVE DecText(_)
\* The decimal numeral of n.
DecText(n) == IF n < 10 THEN <<DecDigits[n + 1]>>
              ELSE Append(DecText(n \div 10), DecDigits[(n % 10) + 1])
IntLit(n) == Token("IntegerLiteralDec", DecText(n))
TrueLit == Token("BooleanLiteral", <<"T", "r", "u", "e">>)
FalseLit == Token("BooleanLiteral", <<"F", "a", "l", "s", "e">>)
StrLit(text) == Token("StringLiteral", text)
Ident(name) == Token("Identifier", name)

InfixKinds == {"Or", "And", "EqualsEquals", "BangEquals", "GreaterThan",
               "GreaterThanEquals", "LessThan", "LessThanEquals", "Plus", "Minus", "Star",
               "Slash"}
PrefixKinds == {"Plus", "Minus", "Bang"}
ArithKinds == {"Plus", "Minus", "Star"}

\* a OP1 b OP2 c over the whole binding-power table.
PrecedenceInputs ==
    {<<IntLit(1), K(o1), IntLit(2), K(o2), IntLit(3), EOF>> : o1 \in InfixKinds, o2 \in InfixKinds}

\* PREFIX x OP y.
PrefixInputs ==
    {<<K(p), TrueLit, K(o), FalseLit, EOF>> : p \in PrefixKinds, o \in InfixKinds}

\* return e; with e an arithmetic expression over integer literals.  The first
\* operand ranges up to the first literal that does not fit an isize.
FirstOperands == {IntLit(1), IntLit(3), IntLit(IsizeMax), IntLit(IsizeMax + 1)}
ArithmeticInputs ==
    {<<K("Return"), a, K("Semicolon"), EOF>> : a \in FirstOperands}
    \cup {<<K("Return"), a, K(o1), IntLit(2), K("Semicolon"), EOF>>
            : a \in FirstOperands, o1 \in ArithKinds}
    \cup UNION {{<<K("Return"), a, K(o1), IntLit(2), K(o2), IntLit(3), K("Semicolon"), EOF>>,
                 <<K("Return"), K("LeftParen"), a, K(o1), IntLit(2), K("RightParen"), K(o2),
                   IntLit(3), K("Semicolon"), EOF>>,
                 <<K("Return"), a, K(o1), K("LeftParen"), IntLit(2), K(o2), IntLit(3),
                   K("RightParen"), K("Semicolon"), EOF>>}
                  : a \in FirstOperands, o1 \in ArithKinds, o2 \in ArithKinds}

\* return a OP b; and return a + b OP c; over operands of three tags.
Operands == {IntLit(1), TrueLit, StrLit(<<"x">>)}
TypedInputs ==
    {<<K("Return"), a, K(o), b, K("Semicolon"), EOF>>
       : a \in Operands, b \in Operands, o \in InfixKinds}
    \cup {<<K("Return"), K("Bang"), a, K("Semicolon"), EOF>> : a \in Operands}
    \cup {<<K("Return"), a, K("Plus"), b, K(o), c, K("Semicolon"), EOF>>
            : a \in {IntLit(1), TrueLit}, b \in {IntLit(1), TrueLit}, c \in {IntLit(1), TrueLit},
              o \in {"Plus", "Star", "And"}}

\* Integer literals of every base: in range, out of range, with a digit the base lacks.
Literals ==
    {Token("IntegerLiteralBin", <<"1", "0", "1">>), Token("IntegerLiteralOct", <<"1", "7">>),
     Token("IntegerLiteralHex", <<"1", "F">>), IntLit(12), IntLit(UsizeMax),
     IntLit(UsizeMax + 1), Token("IntegerLiteralBin", <<"1", "2">>),
     Token("IntegerLiteralOct", <<"8">>), Token("IntegerLiteralHex", <<"f", "f", "f">>)}
LiteralInputs ==
    {<<K("Return"), lit, K("Semicolon"), EOF>> : lit \in Literals}
    \cup {<<lit, K("Semicolon"), K("Return"), IntLit(1), EOF>> : lit \in Literals}

\* A malformed statement, its terminator, then a well-formed terminated statement.
Malformed ==
    {<<K("Let"), K("Equals")>>, <<K("Let"), Ident(<<"x">>), K("Equals")>>,
     <<K("LeftParen")>>, <<K("LeftParen"), IntLit(1)>>, <<K("RightParen")>>,
     <<IntLit(1), IntLit(2)>>, <<IntLit(1), K("Plus")>>, <<K("Return")>>, <<K("Bang")>>}
WellFormed ==
    {<<K("Return"), IntLit(3)>>, <<IntLit(3), K("Star"), IntLit(2)>>,
     <<K("Let"), Ident(<<"y">>), K("Equals"), IntLit(3)>>}
RecoveryInputs ==
    {bad \o <<K("Semicolon")>> \o good \o <<K("Semicolon"), EOF>>
       : bad \in Malformed, good \in WellFormed}
    \cup {bad \o <<OnNewLine(good[1])>> \o Tail(good) \o <<K("Semicolon"), EOF>>
            : bad \in Malformed, good \in WellFormed}

\* Every stream of at most MaxLen tokens of the statement-level alphabet.
FreeAlphabet == {IntLit(1), OnNewLine(IntLit(1)), K("Semicolon"), K("Minus"), K("LeftParen"),
                 K("RightParen"), K("Let"), Ident(<<"x">>), K("Equals"), K("Return")}
Streams(alphabet, n) == UNION {[1..k -> alphabet] : k \in 0..n}
FreeInputs == {Append(s, EOF) : s \in Streams(FreeAlphabet, MaxLen)}

\* Streams with lexer reports, run under every report level and report limit.
ReportAlphabet == {IntLit(1), K("Semicolon"), K("Plus"), LexReport("Error"), LexReport("Warn")}
ReportInputs == {Append(s, EOF) : s \in Streams(ReportAlphabet, MaxLen)}

\* Args::default: report_level Warn, max_reports usize::MAX.
DefaultArgs == [report_level |-> "Warn", max_reports |-> UsizeMax]
AllArgs == [report_level : {"Silent", "Error", "Warn", "Advice"},
            max_reports : {0, 1, UsizeMax}]

\* String literals: plain text, recognised escapes, \u codes whole and truncated, and
\* escapes that are not recognised (\q, \x), alone and after plain text.
StringTexts ==
    {<<"a", "b">>, <<"a", "\\", "t", "b">>, <<"\\", "u", "0", "0", "4", "1">>,
     <<"\\", "u", "1", "2">>, <<"\\", "q">>, <<"a", "\\", "q">>, <<"a", "b", "\\", "x", "y">>}
StringInputs ==
    {<<StrLit(t), EOF>> : t \in StringTexts}
    \cup {<<K("Return"), StrLit(t), K("Semicolon"), EOF>> : t \in StringTexts}

\* `return a OP b;` for the operators whose result depends on the order of the operands.
OrderedKinds == {"Minus", "Slash", "LessThan", "GreaterThan"}
OrderInputs ==
    {<<K("Return"), IntLit(a), K(o), IntLit(b), K("Semicolon"), EOF>>
       : a \in {2, 6}, b \in {2, 6}, o \in OrderedKinds}

\* `return B and/or R;` with B a boolean literal and R an operand whose evaluation is a
\* runtime error (`1 + True`) or a boolean, bare and in parentheses.
EagerInputs ==
    UNION {{<<K("Return"), b, K(o), IntLit(1), K("Plus"), r, K("Semicolon"), EOF>>,
            <<K("Return"), b, K(o), K("LeftParen"), IntLit(1), K("Plus"), r, K("RightParen"),
              K("Semicolon"), EOF>>,
            <<K("Return"), b, K(o), r, K("Semicolon"), EOF>>}
             : b \in {TrueLit, FalseLit}, o \in {"And", "Or"}, r \in {TrueLit, IntLit(1)}}

\* Streams in which a token that begins no expression (`)`, `=`, `;`) is the first of its
\* line: sync stops in front of such a token without consuming it.
NewlineAlphabet == {IntLit(1), K("Let"), K("Plus"), OnNewLine(K("RightParen")),
                    OnNewLine(K("Equals")), OnNewLine(K("Semicolon"))}
NewlineInputs == {Append(s, EOF) : s \in Streams(NewlineAlphabet, MaxLen - 1)}

\* k expression statements, then `return e;`, then possibly another statement: the
\* literals all differ, so that the returned value names the statement it came from.
LeadingStatements ==
    {<<>>, <<IntLit(2), K("Semicolon")>>,
     <<IntLit(2), K("Semicolon"), IntLit(3), K("Semicolon")>>,
     <<TrueLit, K("Semicolon"), IntLit(3), K("Star"), IntLit(2), K("Semicolon")>>}
ReturnInputs ==
    {lead \o <<K("Return")>> \o e \o <<K("Semicolon")>> \o rest \o <<EOF>>
       : lead \in LeadingStatements,
         e \in {<<IntLit(5)>>, <<IntLit(IsizeMax + 1)>>,
                <<IntLit(5), K("Minus"), IntLit(7)>>},
         rest \in {<<>>, <<IntLit(4), K("Semicolon")>>,
                   <<K("Return"), IntLit(4), K("Semicolon")>>}}

\* The token streams run under the default arguments.
DefaultInputs == PrecedenceInputs \cup PrefixInputs \cup ArithmeticInputs \cup TypedInputs
                 \cup LiteralInputs \cup RecoveryInputs \cup FreeInputs
                 \cup StringInputs \cup OrderInputs \cup EagerInputs \cup NewlineInputs
                 \cup ReturnInputs

(***************************************************************************)
(* main (main.rs) as a state machine.                                      *)
(***************************************************************************)
Outcome(kind, val, msg) == [kind |-> kind, val |-> val, msg |-> msg]
Running == Outcome("running", NoneValue, "")

\* The closer parse_program hands to parse_block.
ProgramCloser == "EOF"

\* The parser state an operation of Parser starts from.
Here == [pos |-> parser.pos, panic |-> "", reps |-> <<>>]

\* ARGS and ReportChannel::new: nothing is read yet.
Init ==
    /\ args \in AllArgs
    /\ tokens = <<>>
    /\ parser = [pos |-> 0, start |-> 0]
    /\ queue = <<>>
    /\ sent = <<>>
    /\ pc = "new"
    /\ stmts = <<>>
    /\ ast = None
    /\ reported = 0
    /\ shown = <<>>
    /\ chunk = Chunk_new
    /\ ip = 0
    /\ stack = <<>>
    /\ outcome = Running

\* The first Ok item of the lexer, the Err items before it reported.
First == NextToken([pos |-> 0, panic |-> "", reps |-> <<>>], 1)

\* Parser::new: the lexer over the file, whose first Ok token becomes `current`.
ParserNew ==
    /\ pc = "new"
    /\ \/ args = DefaultArgs /\ tokens' \in DefaultInputs
       \/ tokens' \in ReportInputs
    /\ parser' = [pos |-> First.pos, start |-> First.pos]'
    /\ queue' = First.reps'
    /\ sent' = First.reps'
    /\ pc' = "parse"
    /\ UNCHANGED <<args, stmts, ast, reported, shown, chunk, ip, stack, outcome>>

\* parse_block, either Err arm: report the error, then sync.
Recover(failed, closer) ==
    [ps |-> sync(SendReport(failed.ps, failed.val), closer), accepted |-> FALSE,
     node |-> None]

\* parse_block, Ok(stmt) arm: the statement is pushed when consume_line_or is Ok.
AfterStatementLine(node, line, closer) ==
    IF ~line.ok THEN Recover(line, closer)
    ELSE [ps |-> line.ps, accepted |-> TRUE, node |-> node]

\* parse_block: the `match self.parse_statement()`.
AfterStatement(stmt, closer) ==
    IF stmt.ps.panic # "" THEN [ps |-> stmt.ps, accepted |-> FALSE, node |-> None]
    ELSE IF ~stmt.ok THEN Recover(stmt, closer)
    ELSE AfterStatementLine(stmt.val, consume_line_or(stmt.ps, closer), closer)

\* One iteration of parse_block's `while`: [ps, accepted, node].
parse_block_iteration(ps, closer) == AfterStatement(parse_statement(ps), closer)

\* The iteration's effect on the Parser, the Block being built and the channel.
Iterated(it) ==
    /\ queue' = queue \o it.ps.reps
    /\ sent' = sent \o it.ps.reps
    /\ IF it.ps.panic # ""
         THEN /\ pc' = "panic"
              /\ outcome' = Outcome("panic", NoneValue, it.ps.panic)
              /\ UNCHANGED <<parser, stmts>>
         ELSE /\ parser' = [parser EXCEPT !.pos = it.ps.pos]
              /\ stmts' = IF it.accepted THEN Append(stmts, it.node) ELSE stmts
              /\ UNCHANGED <<pc, outcome>>

ParseStatement ==
    /\ pc = "parse"
    /\ Cur(Here).kind # ProgramCloser /\ Cur(Here).kind # "EOF"
    /\ Iterated(parse_block_iteration(Here, ProgramCloser))
    /\ UNCHANGED <<tokens, args, ast, reported, shown, chunk, ip, stack>>

\* The end of parse_block (consume_one(closer), the Block) and parse_program's match.
ParseEnd ==
    /\ pc = "parse"
    /\ Cur(Here).kind \in {ProgramCloser, "EOF"}
    /\ LET end == consume_one(Here, ProgramCloser)
       IN /\ queue' = queue \o end.ps.reps
          /\ sent' = sent \o end.ps.reps
          /\ IF end.ok /\ end.ps.panic = ""
               THEN /\ ast' = Block(stmts, Extend(SpanOf(parser.start), SpanOf(end.val)))
                    /\ parser' = [parser EXCEPT !.pos = end.ps.pos]
                    /\ pc' = "check_reports_and_exit"
                    /\ UNCHANGED outcome
               ELSE /\ pc' = "panic"
                    /\ outcome' = Outcome("panic", NoneValue,
                                           IF end.ps.panic # "" THEN end.ps.panic
                                           ELSE "Failed to parse global block.")
                    /\ UNCHANGED <<ast, parser>>
    /\ UNCHANGED <<tokens, args, stmts, reported, shown, chunk, ip, stack>>

\* report_channel.check_reports_and_exit()
CheckReportsAndExit ==
    /\ pc = "check_reports_and_exit"
    /\ LET c == check_reports(queue)
       IN /\ reported' = c.reported
          /\ shown' = shown \o c.printed
          /\ IF c.exit
               THEN pc' = "exit" /\ outcome' = Outcome("exit", NoneValue, "exit(1)")
               ELSE pc' = "compile" /\ UNCHANGED outcome
    /\ queue' = <<>>
    /\ UNCHANGED <<tokens, args, parser, stmts, ast, sent, chunk, ip, stack>>

\* Compiler::new, compiler.compile_program(&ast)
CompileProgram ==
    /\ pc = "compile"
    /\ LET c == compile_program(ast)
       IN IF c.panic # <<>>
            THEN /\ pc' = "panic"
                 /\ outcome' = Outcome("panic", NoneValue, c.panic[1])
                 /\ UNCHANGED chunk
            ELSE /\ pc' = "check_reports"
                 /\ chunk' = c.chunk
                 /\ UNCHANGED outcome
    /\ UNCHANGED <<tokens, args, parser, stmts, ast, queue, sent, reported, shown, ip, stack>>

\* report_channel.check_reports(), its ExitStatus dropped; then VM::new.
CheckReports ==
    /\ pc = "check_reports"
    /\ LET c == check_reports(queue)
       IN reported' = c.reported /\ shown' = shown \o c.printed
    /\ queue' = <<>>
    /\ pc' = "run"
    /\ ip' = 0
    /\ stack' = <<>>
    /\ UNCHANGED <<tokens, args, parser, stmts, ast, sent, chunk, outcome>>

\* A variant of the Return arm that pops the value and lets the loop go on.
MutReturnKeepsRunning ==
    /\ stack' = IF stack = <<>> THEN stack ELSE Pop(stack, 1)
    /\ ip' = ip + 1
    /\ UNCHANGED <<pc, outcome>>

\* A variant of the Return arm that yields the oldest value of the stack.
MutReturnYieldsOldest ==
    /\ outcome' = Outcome("Ok", IF stack = <<>> THEN NoneValue ELSE stack[1], "")
    /\ stack' = IF stack = <<>> THEN stack ELSE Tail(stack)
    /\ ip' = ip + 1
    /\ pc' = "unwrap_report"

\* OpCode::Return => return Ok(self.stack.pop().unwrap_or(Value::None)): the
\* opcode has been read (ip moved past it), the top of the stack is popped and
\* returned, Value::None when the stack is empty, and run is left.
OpReturn ==
    /\ outcome' = Outcome("Ok", IF stack = <<>> THEN NoneValue
                                 ELSE stack[Len(stack)], "")
    /\ stack' = IF stack = <<>> THEN stack ELSE Pop(stack, 1)
    /\ ip' = ip + 1
    /\ pc' = "unwrap_report"

\* A variant of the Const arm in which read_const does not move ip past the index.
MutConstKeepsIp ==
    /\ stack' = Append(stack, read_const(chunk, ip + 1))
    /\ ip' = ip + 1
    /\ UNCHANGED <<pc, outcome>>

\* OpCode::Const => { let val = self.chunk.read_const(&mut self.ip); self.stack.push(val) }:
\* the index after the opcode is read, ip moves past it, the constant is pushed.
OpConst ==
    /\ stack' = Append(stack, read_const(chunk, ip + 1))
    /\ ip' = ip + 2
    /\ UNCHANGED <<pc, outcome>>

\* One iteration of VM::run's `while`: read_op, then Return or run_op.
RunStep ==
    /\ pc = "run"
    /\ ip < Len(chunk.source)
    /\ LET op == read_op(chunk, ip)
       IN CASE op = "Return" -> OpReturn
            [] op = "Const" /\ HasConst(chunk, ip + 1) -> OpConst
            [] op = "Invalid" \/ (op = "Const" /\ ~HasConst(chunk, ip + 1)) ->
                 /\ pc' = "panic"
                 /\ outcome' = Outcome("panic", NoneValue, "read outside the chunk")
                 /\ ip' = ip + 1
                 /\ UNCHANGED stack
            [] OTHER ->
                 \E r \in run_op(op, stack) :
                    /\ stack' = r.stack
                    /\ ip' = ip + 1
                    /\ CASE r.res = "Ok" -> UNCHANGED <<pc, outcome>>
                         [] r.res = "Err" ->
                              pc' = "unwrap_report" /\ outcome' = Outcome("Err", NoneValue, r.msg)
                         [] r.res = "Panic" ->
                              pc' = "panic" /\ outcome' = Outcome("panic", NoneValue, r.msg)
    /\ UNCHANGED <<tokens, args, parser, stmts, ast, queue, sent, reported, shown, chunk>>

\* A variant of the end of the stream that yields the value left on top of the stack.
MutRunEndYieldsTop ==
    /\ pc = "run"
    /\ ip >= Len(chunk.source)
    /\ outcome' = Outcome("Ok", IF stack = <<>> THEN NoneValue
                                 ELSE stack[Len(stack)], "")
    /\ pc' = "unwrap_report"
    /\ UNCHANGED <<tokens, args, parser, stmts, ast, queue, sent, reported, shown, chunk,
                   ip, stack>>

\* The end of the opcode stream: Ok(Value::None).
RunEnd ==
    /\ pc = "run"
    /\ ip >= Len(chunk.source)
    /\ outcome' = Outcome("Ok", NoneValue, "")
    /\ pc' = "unwrap_report"
    /\ UNCHANGED <<tokens, args, parser, stmts, ast, queue, sent, reported, shown, chunk,
                   ip, stack>>

\* vm.run().unwrap_report(): the value, or the report displayed and exit(1).
UnwrapReport ==
    /\ pc = "unwrap_report"
    /\ IF outcome.kind = "Ok"
         THEN pc' = "done" /\ UNCHANGED shown
         ELSE /\ pc' = "exit"
              /\ shown' = IF should_display(Report("Error", "VM Error", outcome.msg))
                             THEN Append(shown, Report("Error", "VM Error", outcome.msg))
                             ELSE shown
    /\ UNCHANGED <<tokens, args, parser, stmts, ast, queue, sent, reported, chunk, ip,
                   stack, outcome>>

Next ==
    \/ ParserNew
    \/ ParseStatement
    \/ ParseEnd
    \/ CheckReportsAndExit
    \/ CompileProgram
    \/ CheckReports
    \/ RunStep
    \/ RunEnd
    \/ UnwrapReport

Spec == Init /\ [][Next]_vars

(***************************************************************************)
(* Properties.                                                             *)
(***************************************************************************)
\* A node written out fully parenthesised, spans left out.
RECURSIVE Render(_)
Render(node) ==
    CASE node.kind = "BinaryOperation" ->
           <<"(">> \o Render(node.lhs) \o <<node.op>> \o Render(node.rhs) \o <<")">>
      [] node.kind = "UnaryOperation" -> <<"(", node.op>> \o Render(node.expr) \o <<")">>
      [] node.kind = "Return" -> <<"return">> \o Render(node.expr)
      [] node.kind = "VarDeclaration" -> <<"let">> \o node.name \o <<"=">> \o Render(node.expr)
      [] node.kind = "IntegerLiteral" -> <<"int">> \o DecText(node.val)
      [] node.kind = "BooleanLiteral" -> <<IF node.val THEN "true" ELSE "false">>
      [] node.kind = "Identifier" -> <<"id">> \o node.val
      [] node.kind = "StringLiteral" -> <<"str">>
      [] node.kind = "FloatLiteral" -> <<"float">>

Parsed == ast # None
KindsOf(toks) == [i \in 1..Len(toks) |-> toks[i].kind]

\* The operator an infix token stands for and its precedence tier, as documented:
\* or < and < comparisons < additive < multiplicative.
OperatorOf(kind) ==
    CASE kind = "EqualsEquals" -> "Equals"
      [] OTHER -> kind
Tier(kind) ==
    CASE kind = "Or" -> 1
      [] kind = "And" -> 2
      [] kind \in {"EqualsEquals", "BangEquals", "GreaterThan", "GreaterThanEquals",
                   "LessThan", "LessThanEquals"} -> 3
      [] kind \in {"Plus", "Minus"} -> 4
      [] kind \in {"Star", "Slash"} -> 5

\* The stream `a OP1 b OP2 c` of three atoms and two infix operators.
IsTwoOperatorChain ==
    /\ Len(tokens) = 6
    /\ tokens[6].kind = "EOF"
    /\ \A i \in {1, 3, 5} : tokens[i].ok /\ tokens[i].kind = "IntegerLiteralDec"
                            /\ usize_from_str_radix(tokens[i].text, 10).ok
    /\ \A i \in {2, 4} : tokens[i].ok /\ tokens[i].kind \in InfixKinds
Atom(i) == <<"int">> \o tokens[i].text
NestedRight ==
    <<"(">> \o Atom(1) \o <<OperatorOf(tokens[2].kind), "(">> \o Atom(3)
        \o <<OperatorOf(tokens[4].kind)>> \o Atom(5) \o <<")", ")">>
NestedLeft ==
    <<"(", "(">> \o Atom(1) \o <<OperatorOf(tokens[2].kind)>> \o Atom(3)
        \o <<")", OperatorOf(tokens[4].kind)>> \o Atom(5) \o <<")">>

\* C1: `a OP1 b OP2 c` parses to one statement that nests OP2 on the right exactly when
\* OP2 is of a strictly higher tier than OP1, and groups to the left otherwise, equal
\* tiers included.
C1_PrecedenceClimbing ==
    (IsTwoOperatorChain /\ pc \notin {"new", "parse"}) =>
        /\ Parsed
        /\ Len(ast.stmts) = 1
        /\ Len(sent) = 0
        /\ Render(ast.stmts[1]) = IF Tier(tokens[4].kind) > Tier(tokens[2].kind)
                                    THEN NestedRight ELSE NestedLeft

\* `1 + 2 * 3` and `1 - 2 - 3` have been parsed: the first nests to the right, the second
\* to the left.
C1_Witness ==
    /\ IsTwoOperatorChain
    /\ Parsed
    /\ \/ KindsOf(tokens)[2] = "Plus" /\ KindsOf(tokens)[4] = "Star"
          /\ Render(ast.stmts[1]) = NestedRight
       \/ KindsOf(tokens)[2] = "Minus" /\ KindsOf(tokens)[4] = "Minus"
          /\ Render(ast.stmts[1]) = NestedLeft

\* The stream `! x and y` of a prefix Not, an atom, an infix And and an atom.
IsNotAnd ==
    /\ Len(tokens) = 5
    /\ KindsOf(tokens) = <<"Bang", "BooleanLiteral", "And", "BooleanLiteral", "EOF">>
    /\ \A i \in 1..5 : tokens[i].ok
BoolAtom(i) == <<IF tokens[i].text = <<"T", "r", "u", "e">> THEN "true" ELSE "false">>

\* C2: prefix Not binds tighter than infix And: `! x and y` parses to And(Not(x), y),
\* never to Not(And(x, y)).
C2_NotBindsTighterThanAnd ==
    (IsNotAnd /\ pc \notin {"new", "parse"}) =>
        /\ Parsed
        /\ Len(ast.stmts) = 1
        /\ Render(ast.stmts[1]) =
             <<"(", "(", "Not">> \o BoolAtom(2) \o <<")", "And">> \o BoolAtom(4) \o <<")">>

\* Statements delimited by `;` alone: every item up to `last` is a token and none starts a
\* line, so that a statement ends at a Semicolon or at EOF and nowhere else.
OnOneLine(last) == \A j \in 1..last : tokens[j].ok /\ ~tokens[j].newline_before
IsTerminator(j) == tokens[j].kind \in {"Semicolon", "EOF"}
\* The terminator of the statement that starts at token a.
TerminatorFrom(a) == CHOOSE b \in a..Len(tokens) : IsTerminator(b) /\ \A j \in a..(b - 1) : ~IsTerminator(j)
\* The statement parsed on its own from token a; it is well formed when the parse succeeds
\* and stops at the statement's terminator.
StatementAt(a) == parse_statement([pos |-> a, panic |-> "", reps |-> <<>>])
EndsAt(stmt, b) == stmt.ok /\ stmt.ps.panic = "" /\ stmt.ps.pos = b
WellFormedAt(a) == tokens[a].kind # "EOF" /\ EndsAt(StatementAt(a), TerminatorFrom(a))
MalformedAt(a) == ~IsTerminator(a) /\ ~EndsAt(StatementAt(a), TerminatorFrom(a))
InBlock(node) == \E k \in 1..Len(ast.stmts) : ast.stmts[k] = node

\* C3: a well-formed, terminated statement that follows a malformed statement and its `;`
\* appears in the root Block.
C3_RecoveryKeepsFollowingStatement ==
    (Parsed /\ OnOneLine(Len(tokens)) /\ tokens[Len(tokens)].kind = "EOF") =>
        \A i \in 3..Len(tokens) :
            (/\ MalformedAt(1)
             /\ TerminatorFrom(1) = i - 1
             /\ tokens[i - 1].kind = "Semicolon"
             /\ WellFormedAt(i))
            => InBlock(StatementAt(i).val)

\* The first token of every non-empty statement of a stream delimited by `;`.
StatementStarts ==
    {a \in 1..Len(tokens) : ~IsTerminator(a) /\ (a = 1 \/ tokens[a - 1].kind = "Semicolon")}
NoEmptyStatement ==
    \A a \in 1..Len(tokens) :
        tokens[a].kind = "Semicolon" => (a > 1 /\ tokens[a - 1].kind # "Semicolon")
ParserDiagnostics == {j \in 1..Len(sent) : sent[j].title # "LexerReport"}

\* C4: the parser sends exactly as many diagnostics as the input has malformed statements.
C4_OneDiagnosticPerMalformedStatement ==
    (/\ Parsed
     /\ OnOneLine(Len(tokens)) /\ tokens[Len(tokens)].kind = "EOF"
     /\ NoEmptyStatement)
    => Cardinality(ParserDiagnostics) = Cardinality({a \in StatementStarts : MalformedAt(a)})

\* C5: parse returns a root Block for every token stream: once parsing is over there is a
\* tree, and neither the panic of parse_program nor that of advance has happened.
C5_ParseReturnsRootBlock ==
    pc \notin {"new", "parse"} =>
        /\ Parsed
        /\ ast.kind = "Block"
        /\ outcome.msg \notin {"Failed to parse global block.", "Advanced past EOF"}

\* A parse that met several syntax errors, an unexpected EOF among them, and returned.
C5_Witness ==
    /\ pc = "check_reports_and_exit"
    /\ Parsed
    /\ ast.kind = "Block"
    /\ Cardinality(ParserDiagnostics) >= 2
    /\ \E j \in ParserDiagnostics : sent[j].title = "UnexpectedEOF"

\* An arithmetic expression over integer literals and the infix operators + - *, and its
\* value in the integers.
RECURSIVE IsArithmetic(_)
IsArithmetic(node) ==
    CASE node.kind = "IntegerLiteral" -> TRUE
      [] node.kind = "BinaryOperation" ->
           node.op \in {"Plus", "Minus", "Star"} /\ IsArithmetic(node.lhs)
           /\ IsArithmetic(node.rhs)
      [] OTHER -> FALSE
RECURSIVE MathValue(_)
MathValue(node) ==
    CASE node.kind = "IntegerLiteral" -> node.val
      [] node.op = "Plus" -> MathValue(node.lhs) + MathValue(node.rhs)
      [] node.op = "Minus" -> MathValue(node.lhs) - MathValue(node.rhs)
      [] node.op = "Star" -> MathValue(node.lhs) * MathValue(node.rhs)
\* The program `return e;` with e arithmetic, parsed without a diagnostic.
IsArithmeticReturn ==
    /\ Parsed
    /\ Len(sent) = 0
    /\ Len(ast.stmts) = 1
    /\ ast.stmts[1].kind = "Return"
    /\ IsArithmetic(ast.stmts[1].expr)

\* C6: `return e;` with e arithmetic runs to the terminal value Integer(v), v the value of
\* e: the run neither panics nor exits, and `return 1 + 2 * 3;` ends with Integer(7).
C6_EndToEndArithmetic ==
    IsArithmeticReturn =>
        /\ pc \notin {"panic", "exit"}
        /\ pc = "done" => outcome.val = Integer(MathValue(ast.stmts[1].expr))
        /\ (pc = "done" /\ KindsOf(tokens) = <<"Return", "IntegerLiteralDec", "Plus",
                                               "IntegerLiteralDec", "Star",
                                               "IntegerLiteralDec", "Semicolon", "EOF">>
            /\ <<tokens[2].text, tokens[4].text, tokens[6].text>> = <<<<"1">>, <<"2">>, <<"3">>>>)
           => outcome.val = Integer(7)

\* The tag combinations a Value operation is defined for.
Supported(op, ltag, rtag) ==
    CASE op = "Add" -> ltag = rtag /\ ltag \in {"Integer", "Float", "String"}
      [] op \in {"Sub", "Mul", "Div", "Less", "Greater"} ->
           ltag = rtag /\ ltag \in {"Integer", "Float"}
      [] op = "Equal" -> TRUE
      [] op \in {"And", "Or"} -> ltag = "Boolean" /\ rtag = "Boolean"
\* The VM is about to apply a Value operation to operands it is not defined for.
AtTypeMismatch ==
    /\ pc = "run"
    /\ ip < Len(chunk.source)
    /\ \/ /\ read_op(chunk, ip) \in {"Add", "Sub", "Mul", "Div", "Less", "Greater", "Equal",
                                     "And", "Or"}
          /\ Len(stack) >= 2
          /\ ~Supported(read_op(chunk, ip), stack[Len(stack) - 1].tag, stack[Len(stack)].tag)
       \/ /\ read_op(chunk, ip) = "Not"
          /\ Len(stack) >= 1
          /\ stack[Len(stack)].tag # "Boolean"

\* C7: an operation on an unsupported tag combination makes run return an Err at that
\* opcode: no value is pushed in place of the result, there is no panic, and once run has
\* returned the Err no opcode is executed and no terminal Value exists; the process exits.
C7_TypeMismatchIsReturnedErr ==
    [][/\ AtTypeMismatch =>
            /\ pc' = "unwrap_report"
            /\ outcome'.kind = "Err"
            /\ outcome'.val = NoneValue
            /\ Len(stack') < Len(stack)
       /\ outcome.kind = "Err" =>
            /\ pc' = "exit"
            /\ UNCHANGED <<ip, stack, chunk, outcome>>]_vars

\* `return 1 + True;` has ended with the Err of the Add.
C7_Witness ==
    /\ KindsOf(tokens) = <<"Return", "IntegerLiteralDec", "Plus", "BooleanLiteral",
                           "Semicolon", "EOF">>
    /\ pc = "exit"
    /\ outcome.kind = "Err"
    /\ read_op(chunk, ip - 1) = "Add"

\* The opcodes of a stream, read from cell i on with the index after each Const skipped.
RECURSIVE Opcodes(_, _)
Opcodes(source, i) ==
    IF i > Len(source) THEN <<>>
    ELSE <<DecodeOp(source[i])>>
         \o Opcodes(source, IF DecodeOp(source[i]) = "Const" THEN i + 2 ELSE i + 1)
\* The opcodes an operator is documented to lower to, after the code of its operands.
LoweredOperator(op) ==
    CASE op = "Plus" -> <<"Add">>
      [] op = "Minus" -> <<"Sub">>
      [] op = "Star" -> <<"Mul">>
      [] op = "Slash" -> <<"Div">>
      [] op = "Or" -> <<"Or">>
      [] op = "And" -> <<"And">>
      [] op = "GreaterThan" -> <<"Greater">>
      [] op = "LessThan" -> <<"Less">>
      [] op = "Equals" -> <<"Equal">>
      [] op = "GreaterThanEquals" -> <<"Less", "Not">>
      [] op = "LessThanEquals" -> <<"Greater", "Not">>
      [] op = "BangEquals" -> <<"Equal", "Not">>
RECURSIVE Lowered(_)
Lowered(node) ==
    CASE node.kind = "BinaryOperation" ->
           Lowered(node.lhs) \o Lowered(node.rhs) \o LoweredOperator(node.op)
      [] node.kind = "UnaryOperation" -> Lowered(node.expr) \o <<"Not">>
      [] node.kind = "Return" -> Lowered(node.expr) \o <<"Return">>
      [] OTHER -> <<"Const">>
RECURSIVE LoweredStatements(_, _)
LoweredStatements(ss, i) ==
    IF i > Len(ss) THEN <<>> ELSE Lowered(ss[i]) \o LoweredStatements(ss, i + 1)
\* compile_program has returned and its chunk is the VM's.
HasCompiled == pc \in {"check_reports", "run", "unwrap_report", "done"}
               \/ (pc \in {"exit", "panic"} /\ chunk # Chunk_new)

\* C8: the chunk of a compiled program is the lowering of its statements in which >=, <=
\* and != are [lhs, rhs, Less, Not], [lhs, rhs, Greater, Not] and [lhs, rhs, Equal, Not],
\* and every opcode of it is one of the twelve.
C8_ComparisonLowering ==
    HasCompiled =>
        /\ Opcodes(chunk.source, 1) = LoweredStatements(ast.stmts, 1)
        /\ \A i \in 1..Len(Opcodes(chunk.source, 1)) :
              Opcodes(chunk.source, 1)[i] \in
                  {"Const", "Add", "Sub", "Mul", "Div", "Less", "Greater", "Equal", "And",
                   "Or", "Not", "Return"}

\* `return a OP b;` has been compiled for OP one of >=, <= and !=.
C8_Witness ==
    /\ HasCompiled
    /\ Len(tokens) = 6
    /\ KindsOf(tokens) = <<"Return", tokens[2].kind, tokens[3].kind, tokens[4].kind,
                           "Semicolon", "EOF">>
    /\ \/ tokens[3].kind = "GreaterThanEquals"
          /\ Opcodes(chunk.source, 1) = <<"Const", "Const", "Less", "Not", "Return">>
       \/ tokens[3].kind = "LessThanEquals"
          /\ Opcodes(chunk.source, 1) = <<"Const", "Const", "Greater", "Not", "Return">>
       \/ tokens[3].kind = "BangEquals"
          /\ Opcodes(chunk.source, 1) = <<"Const", "Const", "Equal", "Not", "Return">>

\* A construct the compiler cannot lower occurs in the node.
RECURSIVE HasGap(_)
HasGap(node) ==
    CASE node.kind \in {"VarDeclaration", "Identifier", "Block"} -> TRUE
      [] node.kind = "UnaryOperation" -> node.op # "Not" \/ HasGap(node.expr)
      [] node.kind = "BinaryOperation" -> HasGap(node.lhs) \/ HasGap(node.rhs)
      [] node.kind = "Return" -> HasGap(node.expr)
      [] OTHER -> FALSE
ProgramHasGap == Parsed /\ \E k \in 1..Len(ast.stmts) : HasGap(ast.stmts[k])

ErrorSent == \E j \in 1..Len(sent) : sent[j].level = "Error"

\* C10: once an Error-level report has been sent while parsing, the run goes no further
\* than check_reports_and_exit, whatever the report level and the max-reports value: there
\* is no chunk, the VM has not run, and the process ends by exit.
C10_ErrorsStopThePipeline ==
    ErrorSent =>
        /\ pc \in {"parse", "check_reports_and_exit", "exit"}
        /\ chunk = Chunk_new
        /\ ip = 0
        /\ outcome.kind \in {"running", "exit"}

\* The process has exited on an error that the Silent level and a max-reports of 0 both
\* keep from being displayed.
C10_Witness ==
    /\ ErrorSent
    /\ pc = "exit"
    /\ args.report_level = "Silent"
    /\ args.max_reports = 0
    /\ shown = <<>>

\* ---------------------------------------------------------------------------
\* C11  When VM::run fetches a Return opcode it returns Ok of the popped top of
\* the operand stack (Value::None when the stack is empty) and halts at once:
\* from then on the instruction pointer, the stack and the result never change,
\* so no opcode located after the first executed Return is fetched or executed.
AtReturn == pc = "run" /\ ip < Len(chunk.source) /\ read_op(chunk, ip) = "Return"

HasReturned == pc \in {"unwrap_report", "done"} /\ outcome.kind = "Ok"

C11_ReturnHalts ==
    [][/\ AtReturn =>
            /\ pc' = "unwrap_report"
            /\ outcome' = Outcome("Ok", IF stack = <<>> THEN NoneValue
                                        ELSE stack[Len(stack)], "")
            /\ stack' = IF stack = <<>> THEN stack ELSE Pop(stack, 1)
       /\ HasReturned => (pc' = "done" /\ UNCHANGED <<ip, stack, outcome, chunk>>)]_vars

\* A run ended by a Return that still had opcodes after it: `return 1; 1`.
C11_Witness ==
    /\ pc = "done"
    /\ ip < Len(chunk.source)
    /\ outcome.kind = "Ok"
    /\ outcome.val.tag = "Integer"

\* ---------------------------------------------------------------------------
\* C12  When VM::run reaches the end of the opcode stream, no Return having been
\* executed and no runtime error raised, it returns Ok(Value::None) whatever
\* values the operand stack holds, and leaves the stack as it is.
AtEndOfStream == pc = "run" /\ ip >= Len(chunk.source)

C12_EndOfStreamIsNone ==
    [][AtEndOfStream =>
         /\ pc' = "unwrap_report"
         /\ outcome' = Outcome("Ok", NoneValue, "")
         /\ UNCHANGED <<stack, ip>>]_vars

\* A program without `return` whose statements left values on the stack, e.g. `1; 1`.
C12_Witness ==
    /\ pc = "done"
    /\ ip = Len(chunk.source)
    /\ Len(stack) >= 2
    /\ outcome = Outcome("Ok", NoneValue, "")

\* ---------------------------------------------------------------------------
\* C13  In parse_block a successfully parsed statement is pushed onto the Block
\* only if the token that follows it is a Semicolon (which is consumed), EOF or
\* a token with newline_before set; when the following token is none of these,
\* exactly one diagnostic is reported and the statement is not pushed.
EndsStatement(t) == t.kind = "Semicolon" \/ t.kind = "EOF" \/ t.newline_before

\* The parser is about to run an iteration of the while whose parse_statement succeeds.
AtParsedStatement ==
    /\ pc = "parse"
    /\ tokens[parser.pos].kind # "EOF"
    /\ StatementAt(parser.pos).ok
    /\ StatementAt(parser.pos).ps.panic = ""

C13_StatementNeedsTerminator ==
    [][AtParsedStatement =>
         LET stmt == StatementAt(parser.pos)
             b == stmt.ps.pos
         IN IF EndsStatement(tokens[b])
              THEN /\ stmts' = Append(stmts, stmt.val)
                   /\ Cardinality(ParserDiagnostics') = Cardinality(ParserDiagnostics)
                   /\ IF tokens[b].kind = "Semicolon"
                        THEN parser'.pos > b
                        ELSE parser'.pos = b
              ELSE /\ stmts' = stmts
                   /\ Cardinality(ParserDiagnostics') = Cardinality(ParserDiagnostics) + 1
                   /\ \E j \in (Len(sent) + 1)..Len(sent') :
                        sent'[j].title = "UnexpectedToken" /\ sent'[j].at = b]_vars

\* A first statement parsed and then refused for want of a terminator, as in `1 1`:
\* one diagnostic, and the statement is not in the Block.
C13_Witness ==
    /\ Parsed
    /\ tokens[1].ok
    /\ StatementAt(1).ok
    /\ ~EndsStatement(tokens[StatementAt(1).ps.pos])
    /\ Cardinality(ParserDiagnostics) = 1
    /\ ~InBlock(StatementAt(1).val)

\* ---------------------------------------------------------------------------
\* C14  In every chunk compile_program produces each Const opcode is immediately
\* followed by the index of an existing constant-pool entry, and during VM::run
\* every fetch happens at an opcode boundary: an inline index is never decoded
\* as an opcode and read_const never reads outside the pool.
\* The offsets of the opcodes of a stream, walked from offset i.
RECURSIVE OpcodeOffsets(_, _)
OpcodeOffsets(source, i) ==
    IF i >= Len(source) THEN {}
    ELSE {i} \cup OpcodeOffsets(source, IF DecodeOp(source[i + 1]) = "Const" THEN i + 2
                                        ELSE i + 1)

ConstsIndexed(ch) ==
    \A i \in OpcodeOffsets(ch.source, 0) :
        /\ DecodeOp(ch.source[i + 1]) # "Invalid"
        /\ DecodeOp(ch.source[i + 1]) = "Const" =>
              /\ i + 1 < Len(ch.source)
              /\ ch.source[i + 2] \in 0..(Len(ch.consts) - 1)

C14_ConstIndicesAndBoundaries ==
    /\ HasCompiled => ConstsIndexed(chunk)
    /\ pc = "run" => ip \in OpcodeOffsets(chunk.source, 0) \cup {Len(chunk.source)}
    /\ outcome.msg # "read outside the chunk"

\* The VM between two opcodes of a chunk with several constants, one already pushed.
C14_Witness ==
    /\ pc = "run"
    /\ Len(chunk.consts) >= 2
    /\ ip > 0 /\ ip < Len(chunk.source)
    /\ read_op(chunk, ip) = "Const"
    /\ stack # <<>>

\* ---------------------------------------------------------------------------
\* C15  The parser never advances past EOF: advance is called only while the
\* current token is not EOF, so the expect("Advanced past EOF") never fires and
\* once the current token is EOF it remains the current token.
AtEOF == pc = "parse" /\ Cur(Here).kind = "EOF"

C15_NeverAdvancesPastEOF ==
    [][/\ outcome'.msg # "Advanced past EOF"
       /\ AtEOF => (parser'.pos = parser.pos /\ pc' # "panic")]_vars

\* The parser standing on EOF after it met EOF in the middle of a statement (`1 +`, `(`)
\* and recovered: nothing was pushed and the statement's diagnostic is UnexpectedEOF.
C15_Witness ==
    /\ AtEOF
    /\ parser.pos = Len(tokens)
    /\ parser.pos > 1
    /\ stmts = <<>>
    /\ \E j \in ParserDiagnostics : sent[j].title = "UnexpectedEOF"

\* ---------------------------------------------------------------------------
\* C16  When StringParser::parse meets a backslash followed by a character that
\* is not a recognised escape (`\q`), the syntax error's primary label is the
\* span of the offending escape character itself, the character after the
\* backslash, at its offset in the source file.
RecognisedEscapes == {"\\", "'", "\"", "n", "r", "t", "b", "f", "0", "u"}

\* The source span of the character at index k of a string token's text, as
\* StringParser::span places text[a..b] (the text starts one past the token's start).
CharSpan(span, k) == sp_span(span, k, k + 1)

\* The text's only backslash is at index k and the character after it is no escape.
InvalidEscapeAt(text, k) ==
    /\ k + 2 <= Len(text)
    /\ text[k + 1] = "\\"
    /\ \A p \in 1..Len(text) : text[p] = "\\" => p = k + 1
    /\ text[k + 2] \notin RecognisedEscapes

InvalidEscapeReports ==
    {j \in 1..Len(sent) : sent[j].title = "SyntaxError"
                           /\ sent[j].msg = "Invalid Escape Character"}

C16_InvalidEscapeLabelsEscapedChar ==
    (pc \notin {"new", "parse"} /\ Len(tokens) >= 2) =>
        \A i \in 1..2 : \A k \in 0..MaxLen :
            (/\ tokens[i].kind = "StringLiteral"
             /\ i = 2 => tokens[1].kind = "Return"
             /\ InvalidEscapeAt(tokens[i].text, k))
            => \E j \in InvalidEscapeReports : sent[j].at = CharSpan(SpanOf(i), k + 1)

\* ---------------------------------------------------------------------------
\* C17  A binary opcode pops rhs first and lhs second and pushes op(lhs, rhs);
\* the compiler emitting lhs before rhs, `a - b`, `a / b`, `a < b` and `a > b`
\* are evaluated with a on the left and b on the right.
\* The program `return a OP b;` over two integer literals that fit the signed word,
\* OP one of - / < > and b not zero.
IsOrderedReturn ==
    /\ Parsed
    /\ Len(sent) = 0
    /\ Len(ast.stmts) = 1
    /\ ast.stmts[1].kind = "Return"
    /\ ast.stmts[1].expr.kind = "BinaryOperation"
    /\ ast.stmts[1].expr.op \in {"Minus", "Slash", "LessThan", "GreaterThan"}
    /\ ast.stmts[1].expr.lhs.kind = "IntegerLiteral"
    /\ ast.stmts[1].expr.rhs.kind = "IntegerLiteral"
    /\ ast.stmts[1].expr.lhs.val <= IsizeMax
    /\ ast.stmts[1].expr.rhs.val \in 1..IsizeMax

\* The value of `a OP b` with a on the left.
LeftToRight(op, a, b) ==
    CASE op = "Minus" -> Integer(a - b)
      [] op = "Slash" -> Integer(a \div b)
      [] op = "LessThan" -> Boolean(a < b)
      [] op = "GreaterThan" -> Boolean(a > b)

C17_OperandOrder ==
    (IsOrderedReturn /\ pc \in {"unwrap_report", "done", "exit", "panic"}) =>
        /\ outcome.kind = "Ok"
        /\ outcome.val = LeftToRight(ast.stmts[1].expr.op, ast.stmts[1].expr.lhs.val,
                                     ast.stmts[1].expr.rhs.val)

\* `return 2 - 6;` has ended with Integer(-4).
C17_Witness ==
    /\ IsOrderedReturn
    /\ pc = "done"
    /\ ast.stmts[1].expr.op = "Minus"
    /\ ast.stmts[1].expr.lhs.val < ast.stmts[1].expr.rhs.val
    /\ outcome.val = Integer(ast.stmts[1].expr.lhs.val - ast.stmts[1].expr.rhs.val)

\* ---------------------------------------------------------------------------
\* C18  `and` and `or` are evaluated eagerly: the code of both operands runs
\* before the And/Or opcode, so a runtime error in the right operand makes
\* VM::run fail even when the left operand alone determines the result:
\* `False and (1 + True)` is a runtime error, not Boolean(false).
\* An operand whose evaluation is a type mismatch: Integer + Boolean.
FailsAtRuntime(node) ==
    /\ node.kind = "BinaryOperation"
    /\ node.op = "Plus"
    /\ node.lhs.kind = "IntegerLiteral"
    /\ node.rhs.kind = "BooleanLiteral"

\* The program `return B and/or R;`, B a boolean literal and R failing at run time.
IsEagerCase ==
    /\ Parsed
    /\ Len(sent) = 0
    /\ Len(ast.stmts) = 1
    /\ ast.stmts[1].kind = "Return"
    /\ ast.stmts[1].expr.kind = "BinaryOperation"
    /\ ast.stmts[1].expr.op \in {"And", "Or"}
    /\ ast.stmts[1].expr.lhs.kind = "BooleanLiteral"
    /\ FailsAtRuntime(ast.stmts[1].expr.rhs)

C18_LogicalOperatorsAreEager ==
    IsEagerCase =>
        /\ pc # "done"
        /\ pc \in {"unwrap_report", "exit", "panic"} =>
              (outcome.kind = "Err" /\ Len(stack) = 1 /\ stack[1].tag = "Boolean")
        /\ HasCompiled =>
              Opcodes(chunk.source, 1)
                = <<"Const", "Const", "Const", "Add", ast.stmts[1].expr.op, "Return">>

\* `return False and (1 + True);` has exited on the runtime error of its right operand.
C18_Witness ==
    /\ IsEagerCase
    /\ ast.stmts[1].expr.op = "And"
    /\ ~ast.stmts[1].expr.lhs.val
    /\ pc = "exit"
    /\ outcome.kind = "Err"

\* ---------------------------------------------------------------------------
\* C19  When the text of an integer literal token does not parse under the
\* radix of its base tag, parse_atom returns a syntax-error diagnostic carrying
\* the parse failure as its note: the parser does not crash, parse_block
\* reports the diagnostic once and resynchronises, and no node is produced for
\* the token.
IntegerKinds == {"IntegerLiteralBin", "IntegerLiteralOct", "IntegerLiteralDec",
                 "IntegerLiteralHex"}

\* Token i is an integer literal the parser reaches as an atom (it starts the program or
\* follows its leading `return`) and its text fails to parse.
BadLiteralAt(i) ==
    /\ i <= Len(tokens)
    /\ tokens[i].kind \in IntegerKinds
    /\ i = 2 => tokens[1].kind = "Return"
    /\ ~usize_from_str_radix(tokens[i].text, Radix(tokens[i].kind)).ok

LiteralReports(i) ==
    {j \in 1..Len(sent) : /\ sent[j].title = "SyntaxError"
                           /\ sent[j].msg = "Invalid Integer literal"
                           /\ sent[j].at = SpanOf(i)}

C19_InvalidIntegerLiteralIsDiagnosed ==
    pc \notin {"new", "parse"} =>
        \A i \in 1..2 :
            BadLiteralAt(i) =>
                /\ Parsed
                /\ pc # "panic"
                /\ Cardinality(LiteralReports(i)) = 1
                /\ \A j \in LiteralReports(i) :
                      /\ sent[j].level = "Error"
                      /\ sent[j].note
                           = usize_from_str_radix(tokens[i].text, Radix(tokens[i].kind)).val
                /\ \A k \in 1..Len(ast.stmts) : ast.stmts[k].span[1] > i
                /\ (i + 2 < Len(tokens) /\ tokens[i + 1].kind = "Semicolon"
                    /\ WellFormedAt(i + 2))
                   => InBlock(StatementAt(i + 2).val)

\* `64; return 1` on a word whose largest value is 63: the literal overflowed, its statement
\* was dropped with one diagnostic and the statement after the `;` was parsed.
C19_Witness ==
    /\ Parsed
    /\ BadLiteralAt(1)
    /\ usize_from_str_radix(tokens[1].text, Radix(tokens[1].kind)).val = "PosOverflow"
    /\ Cardinality(LiteralReports(1)) = 1
    /\ Len(ast.stmts) = 1
    /\ ast.stmts[1].kind = "Return"

\* ---------------------------------------------------------------------------
\* C20  For every integer literal the parser accepts, of value n as an unsigned
\* machine word, the constant Compiler::compile emits is Value::Integer(n) with
\* the same mathematical value: no accepted literal changes value or sign in
\* the unsigned-to-signed conversion.
\* The values of the integer literals of a node, in the order compile visits them.
RECURSIVE LiteralValues(_)
LiteralValues(node) ==
    CASE node.kind = "IntegerLiteral" -> <<node.val>>
      [] node.kind \in {"Return", "UnaryOperation"} -> LiteralValues(node.expr)
      [] node.kind = "BinaryOperation" -> LiteralValues(node.lhs) \o LiteralValues(node.rhs)
      [] OTHER -> <<>>

RECURSIVE ProgramLiteralValues(_, _)
ProgramLiteralValues(ss, i) ==
    IF i > Len(ss) THEN <<>>
    ELSE LiteralValues(ss[i]) \o ProgramLiteralValues(ss, i + 1)

\* The values of the Integer constants of a pool, in pool order.
RECURSIVE IntegerConstants(_, _)
IntegerConstants(consts, i) ==
    IF i > Len(consts) THEN <<>>
    ELSE (IF consts[i].tag = "Integer" THEN <<consts[i].v>> ELSE <<>>)
         \o IntegerConstants(consts, i + 1)

C20_LiteralKeepsItsValue ==
    HasCompiled => IntegerConstants(chunk.consts, 1) = ProgramLiteralValues(ast.stmts, 1)

\* ---------------------------------------------------------------------------
\* C21  The operand of a prefix Plus or Minus is parsed at minimum binding
\* power 1, the loosest: it extends over every following infix operator, so
\* `Minus a Plus b` parses as UnaryOperation(Minus, BinaryOperation(Plus, a, b))
\* and `Minus a Or b` as UnaryOperation(Minus, BinaryOperation(Or, a, b)).
\* The stream `PREFIX a OP b` of a prefix Plus or Minus, an atom, an infix operator, an atom.
IsSignedInfix ==
    /\ Len(tokens) = 5
    /\ \A i \in 1..5 : tokens[i].ok
    /\ tokens[1].kind \in {"Plus", "Minus"}
    /\ tokens[2].kind = "BooleanLiteral"
    /\ tokens[3].kind \in InfixKinds
    /\ tokens[4].kind = "BooleanLiteral"
    /\ tokens[5].kind = "EOF"

C21_SignOperandTakesEveryInfix ==
    (IsSignedInfix /\ pc \notin {"new", "parse"}) =>
        /\ Parsed
        /\ Len(sent) = 0
        /\ Len(ast.stmts) = 1
        /\ ast.stmts[1].kind = "UnaryOperation"
        /\ ast.stmts[1].op = tokens[1].kind
        /\ ast.stmts[1].span = <<1, 5>>
        /\ ast.stmts[1].expr.kind = "BinaryOperation"
        /\ ast.stmts[1].expr.op = OperatorOf(tokens[3].kind)
        /\ ast.stmts[1].expr.lhs = Leaf("BooleanLiteral", TRUE, SpanOf(2))
        /\ ast.stmts[1].expr.rhs = Leaf("BooleanLiteral", FALSE, SpanOf(4))

\* `- True or False` parsed: the Or, the loosest infix operator, is inside the operand.
C21_Witness ==
    /\ IsSignedInfix
    /\ Parsed
    /\ tokens[1].kind = "Minus"
    /\ tokens[3].kind = "Or"
    /\ ast.stmts[1].kind = "UnaryOperation"
    /\ ast.stmts[1].expr.kind = "BinaryOperation"
    /\ ast.stmts[1].expr.op = "Or"

\* ---------------------------------------------------------------------------
\* C22  The max-reports value caps the reports written for display over the
\* whole life of the ReportChannel: after any sequence of check_reports calls
\* the counter `reported` never exceeds max_reports, and once it equals
\* max_reports every further report is skipped for display while it still
\* counts as an error if its level is Error.
AtCheckReports == pc \in {"check_reports_and_exit", "check_reports"}

\* The reports waiting in the channel that pass the level filter.
Displayable == {j \in 1..Len(queue) : should_display(queue[j])}

C22_MaxReportsCapsDisplay ==
    [][/\ reported' <= args.max_reports
       /\ AtCheckReports =>
            /\ reported' = Min(args.max_reports, reported + Cardinality(Displayable))
            /\ Len(shown') - Len(shown) <= reported' - reported
            /\ (pc = "check_reports_and_exit"
                /\ \E j \in 1..Len(queue) : queue[j].level = "Error") => pc' = "exit"]_vars

\* A run that exited with the cap of one report reached: two reports passed the level
\* filter, one was written and shown, the other skipped.
C22_Witness ==
    /\ pc = "exit"
    /\ args.max_reports = 1
    /\ reported = 1
    /\ Len(shown) = 1
    /\ Cardinality({j \in 1..Len(sent) : should_display(sent[j])}) >= 2
    /\ \E j \in 2..Len(sent) : sent[j].level = "Error" /\ should_display(sent[j])

\* ---------------------------------------------------------------------------
\* C23  Parser::parse terminates on every finite token stream ending in EOF:
\* each iteration of the parse_block loop consumes at least one token
\* (parse_statement and the sync that follows never leave the current token
\* where it was while it is not EOF), skip_until stops at EOF, and at EOF the
\* loop is left.
InParseLoop == pc = "parse" /\ Cur(Here).kind # "EOF"

C23_EveryIterationConsumes ==
    [][/\ InParseLoop =>
            /\ pc' = "parse"
            /\ parser'.pos > parser.pos
            /\ parser'.pos <= Len(tokens)
       /\ (pc = "parse" /\ Cur(Here).kind = "EOF") => pc' = "check_reports_and_exit"]_vars

\* `let` followed by a `)` that starts a line: the `let` statement failed at the `)`
\* without consuming it, sync stopped in front of it, and the next iteration consumed it
\* with a second diagnostic at the same token; the parse is over.
C23_Witness ==
    /\ Parsed
    /\ Len(tokens) >= 3
    /\ tokens[1].kind = "Let"
    /\ tokens[2].kind = "RightParen" /\ tokens[2].newline_before
    /\ Cardinality({j \in ParserDiagnostics : sent[j].at = 2}) = 2

\* ---------------------------------------------------------------------------
\* C24  For every chunk compile_program produces from a parser-built AST of
\* lowerable constructs, VM::run never pops an empty operand stack in run_op:
\* before a unary opcode the stack holds at least one value and before a
\* binary opcode at least two, so the unwrap on stack.pop() in unary! and
\* binary! cannot panic.
UnaryOpcodes == {"Not"}
BinaryOpcodes == {"Add", "Sub", "Mul", "Div", "Less", "Greater", "Equal", "And", "Or"}

\* The VM is about to fetch the opcode op.
AtOpcode(op) == pc = "run" /\ ip < Len(chunk.source) /\ read_op(chunk, ip) = op

C24_NoStackUnderflow ==
    /\ \A op \in UnaryOpcodes : AtOpcode(op) => Len(stack) >= 1
    /\ \A op \in BinaryOpcodes : AtOpcode(op) => Len(stack) >= 2
    /\ outcome.msg # "unwrap on None"

\* The VM in front of a binary opcode with both operands above a value that an earlier
\* expression statement left on the stack (`1` then `1 - 1` on the next line).
C24_Witness ==
    /\ \E op \in BinaryOpcodes : AtOpcode(op)
    /\ Len(stack) = 3
    /\ Len(ast.stmts) = 2

\* ---------------------------------------------------------------------------
\* C25  Expression statements emit no pop, so their values stay on the operand
\* stack; nevertheless a Return statement yields the value of its own operand:
\* for k expression statements followed by `return e`, the stack depth when
\* Return executes is k + 1 and VM::run returns the value of e, not the value
\* of an earlier statement.
\* The index of the program's first Return statement, 0 when it has none.
FirstReturn ==
    IF \E r \in 1..Len(ast.stmts) : ast.stmts[r].kind = "Return"
      THEN CHOOSE r \in 1..Len(ast.stmts) :
             /\ ast.stmts[r].kind = "Return"
             /\ \A q \in 1..(r - 1) : ast.stmts[q].kind # "Return"
      ELSE 0

\* An integer literal, or one operator over two integer literals whose values and result
\* fit the signed word.
IsSmallArithmetic(node) ==
    \/ node.kind = "IntegerLiteral"
    \/ /\ node.kind = "BinaryOperation"
       /\ node.op \in {"Plus", "Minus", "Star"}
       /\ node.lhs.kind = "IntegerLiteral" /\ node.lhs.val <= IsizeMax
       /\ node.rhs.kind = "IntegerLiteral" /\ node.rhs.val <= IsizeMax
       /\ MathValue(node) \in IsizeMin..IsizeMax

\* A program, parsed without a diagnostic and lowerable as a whole, of k >= 0 expression
\* statements that run without error, followed by `return e` with e such an expression
\* (and by any further statements).
IsReturnAfterStatements ==
    /\ Parsed
    /\ Len(sent) = 0
    /\ ~ProgramHasGap
    /\ FirstReturn > 0
    /\ \A q \in 1..(FirstReturn - 1) :
          ast.stmts[q].kind \in {"BooleanLiteral", "StringLiteral"}
          \/ IsSmallArithmetic(ast.stmts[q])
    /\ IsSmallArithmetic(ast.stmts[FirstReturn].expr)

\* The value of the operand of the first Return, as a signed machine word.
OperandValue == Integer(WrapIsize(MathValue(ast.stmts[FirstReturn].expr)))

C25_ReturnYieldsItsOwnOperand ==
    IsReturnAfterStatements =>
        /\ AtOpcode("Return") =>
              /\ Len(stack) = FirstReturn
              /\ stack[Len(stack)] = OperandValue
        /\ pc \in {"unwrap_report", "done", "exit", "panic"} =>
              /\ outcome = Outcome("Ok", OperandValue, "")
              /\ Len(stack) = FirstReturn - 1

\* `2; 3; return 5 - 7;` has returned Integer(-2) with the values 2 and 3 still on the stack.
C25_Witness ==
    /\ IsReturnAfterStatements
    /\ FirstReturn = 3
    /\ pc = "done"
    /\ Len(stack) = 2
    /\ stack[1].tag = "Integer" /\ stack[2].tag = "Integer"
    /\ outcome.val.tag = "Integer"
    /\ outcome.val.v < 0

(***************************************************************************)
(* C26: every report drained by ReportChannel::check_reports that passes   *)
(* the level filter and the max-reports cap is written to the error output *)
(* by that call, whether or not an Error-level report was drained in the   *)
(* same call; the Warn and Advice reports of an error-free run are shown.  *)
(***************************************************************************)
\* The reports a call of check_reports counted as written are the reports it showed.
C26_CountedReportsAreShown ==
    [][AtCheckReports => Len(shown') - Len(shown) = reported' - reported]_vars

\* An error-free run under the default level whose only report, a warning, was counted
\* by check_reports and never shown.
C26_WarningDropped ==
    /\ pc = "compile"
    /\ args.report_level = "Warn"
    /\ Len(sent) = 1 /\ sent[1].level = "Warn"
    /\ reported = 1
    /\ shown = <<>>
====
